---- MODULE Spec2Model ----
(***************************************************************************)
(* Model of the multi-transport chat bridge of PowerBI-Copilot-Bridge-Pro. *)
(*                                                                         *)
(*  Spec       the widget (src/src/visual.ts): the four transport adapters *)
(*             and sendMessageWithFallback, on a clock of one second.      *)
(*  StoreSpec  the storage-bridge function (netlify/functions/debug.js,    *)
(*             lines 566-669), on a clock of one minute.                   *)
(*  ProxySpec  the backend proxies, one exchange per step, fed by the      *)
(*             widget's processDataView.                                   *)
(*  RunSpec    one proxy invocation in time, with its timers and upstream  *)
(*             calls, in milliseconds.                                     *)
(*  HostSpec   the widget with the host's updates of the view; LiveSpec    *)
(*             adds the fairness of the clock and of the timers.           *)
(*  RuleSpec   the bucket choice of the rule-based generator of chat.js.   *)
(*  ParseSpec  the context parameter of chat.js: cut at 2000 characters,   *)
(*             then parsed.                                                *)
(*  FrameSpec  one invocation of sendViaIframe and the message events the  *)
(*             window gets.                                                *)
(*  ErrorSpec  the error handler (errorHandler.ts): analyzeError and the   *)
(*             error history.                                              *)
(*  TimedSpec  the widget with the fairness of the clock and of the        *)
(*             timers.                                                     *)
(*                                                                         *)
(* Timers follow the browser's rules: a timer fires when its delay has     *)
(* elapsed, timers due at the same instant fire in creation order, and a   *)
(* promise continuation runs in the same task as the handler that settled  *)
(* the promise, so a handler and the continuation it wakes are one action. *)
(* The clock is a simulated one: it does not pass an instant at which a    *)
(* timer is due, and user input is taken after the timers due at that      *)
(* instant have run.                                                       *)
(***************************************************************************)
EXTENDS Integers, Sequences, FiniteSets, TLC

VARIABLES
    enabled,         \* communicationMethods[i].enabled, by method name
    reenable,        \* pending setTimeout(..., 30000) tasks per method: seconds left
    loading,         \* setLoadingState: button and input disabled
    enabledMethods,  \* sendMessageWithFallback's local snapshot (method names)
    idx,             \* position of the for loop in enabledMethods, 0 outside it
    raceLeft,        \* seconds left on the 16 s race timer of the attempt, -1 none
    cur,             \* the adapter invocation the controller awaits
    abandoned,       \* invocations no longer awaited that still hold resources
    lastError,       \* sendMessageWithFallback's local lastError?.message
    lastUsedMethod,  \* this.lastUsedMethod
    outcome,         \* how the last sendMessageWithFallback call settled
    attempted,       \* history: methods invoked for the question, in order
    attemptAge,      \* history: seconds since the awaited invocation was made
    callAge,         \* history: seconds since sendMessageWithFallback was called
    enabledAtStart,  \* history: methods with enabled = true at the call
    asked,           \* history: number of questions submitted
    sinceFail,       \* history: seconds since the method last failed (capped)
    lastFail,        \* history: message of the latest failed attempt
    wins,            \* history: <<method, answer>> of the adapters that resolved
                     \*          while awaited in this question
    leaked,          \* history: what adapters still held when their promise settled
    late,            \* history: <<method, kind>> of the promises that settled
                     \*          when the controller no longer awaited them
    passed,          \* history: the data context handed to each adapter invoked
                     \*          for the question, in order
    bubbles,         \* history: the bubbles handleSendMessage has added to the
                     \*          chat for the question, in order
    responses,       \* storage-bridge: the module-level Map, by session id
    cleanups,        \* storage-bridge: pending cleanup timers, in creation order
    storeNow,        \* storage-bridge: the clock, in minutes
    reply,           \* storage-bridge: the last response sent
    request,         \* history: kind and session of the request it answers
    stores,          \* history: number of store requests handled
    trail,           \* history: per session, the last two things done to it
    lastStored,      \* history: per session, the payload and time of the last store
    took,            \* history: per session, what removed the entry last stored
                     \*          under it from the map ("fetch", "cleanup")
    dataView,        \* the host view of the last update(options)
    dataContext,     \* this.dataContext
    clock,           \* backend proxies: the server clock (Date.now())
    exchange,        \* backend proxies: the last request handled and its response
    repeat,          \* backend proxies: a later request with the same question
                     \*   and context as `exchange`, and its response
    run,             \* one proxy invocation: the position of its exchange
    elapsed,         \* one proxy invocation: milliseconds since it began
    due,             \* one proxy invocation: when its pending timers and
                     \*   upstream calls come due
    handled,         \* one proxy invocation: what the handler has returned
                     \*   and written so far
    typed,           \* rule-based generator: the question text, in the pieces
                     \*   it was put together from
    chosen,          \* rule-based generator: the last question it was given
                     \*   and the responseType it selected
    sentRows,        \* chat context: the rows the caller put in params.context
    contextData,     \* chat context: what the handler made of params.context
    baseUrl,         \* hidden frame: this.baseUrl
    frame,           \* hidden frame: the invocation of sendViaIframe
    promise,         \* hidden frame: how its promise settled, and on what
    heard,           \* hidden frame: the last message event the window got
    errorHistory,    \* error handler: this.errorHistory, each entry by its
                     \*   arrival number
    errorDetails,    \* error handler: what analyzeError returned last, and
                     \*   the message it was given
    logged,          \* history: errors logged since the last clear
    arrived          \* history: errors logged in all

ctlVars == <<enabled, reenable, loading, enabledMethods, idx, raceLeft, cur,
             abandoned, lastError, lastUsedMethod, outcome>>
histVars == <<attempted, attemptAge, callAge, enabledAtStart, asked, sinceFail,
              lastFail, wins, leaked, late, passed, bubbles>>
widgetVars == <<ctlVars, histVars>>
storeVars == <<responses, cleanups, storeNow, reply, request, stores, trail,
               lastStored, took>>
proxyVars == <<dataView, dataContext, clock, exchange, repeat>>
runVars == <<run, elapsed, due, handled>>
ruleVars == <<typed, chosen>>
parseVars == <<sentRows, contextData>>
frameVars == <<baseUrl, frame, promise, heard>>
errorVars == <<errorHistory, errorDetails, logged, arrived>>
vars == <<widgetVars, storeVars, proxyVars, runVars, ruleVars, parseVars, frameVars, errorVars>>

----------------------------------------------------------------------------
(* Program constants, in seconds (the source gives milliseconds).          *)

AdapterTimeout == 15
RaceTimeout == 16
Cooldown == 30
PollStart == 2
PollInterval == 1
maxAttempts == 15

(* Bound of the model: an answer of the network (script callback, frame    *)
(* message, stream event, store poll response) arrives at most MaxLatency  *)
(* seconds after the request, or never.                                    *)
MaxLatency == 0

(* Bound of the model: the number of questions the user submits. *)
MaxQuestions == 2

(* Cap of the history clock attemptAge. *)
AgeCap == 20

(* Cap of the history clock callAge. *)
CallCap == 70

----------------------------------------------------------------------------
(* CommunicationMethod table.                                              *)

communicationMethods ==
    << [name |-> "JSONP",  priority |-> 1],
       [name |-> "Iframe", priority |-> 2],
       [name |-> "SSE",    priority |-> 3],
       [name |-> "Pixel",  priority |-> 4] >>

Names == {communicationMethods[k].name : k \in DOMAIN communicationMethods}

Priority(n) ==
    communicationMethods[CHOOSE k \in DOMAIN communicationMethods :
                            communicationMethods[k].name = n].priority

Range(s) == {s[k] : k \in DOMAIN s}

(* JavaScript `a || d` on strings: the empty string is falsy. *)
Or(a, d) == IF a = "" THEN d ELSE a

(* Variant of the filter that keeps every method. *)
FilterNothing(ms, en) == ms

(* Array.prototype.filter(m => m.enabled) on the table. *)
FilterEnabled(ms, en) == SelectSeq(ms, LAMBDA m : en[m.name])

(* Array.prototype.sort((a, b) => a.priority - b.priority): stable insertion. *)
RECURSIVE Insert(_, _)
Insert(m, s) ==
    IF s = <<>> THEN <<m>>
    ELSE IF m.priority - Head(s).priority < 0 THEN <<m>> \o s
    ELSE <<Head(s)>> \o Insert(m, Tail(s))

(* Variant of the sort with the comparison reversed. *)
RECURSIVE InsertDescending(_, _)
InsertDescending(m, s) ==
    IF s = <<>> THEN <<m>>
    ELSE IF Head(s).priority - m.priority < 0 THEN <<m>> \o s
    ELSE <<Head(s)>> \o InsertDescending(m, Tail(s))

RECURSIVE SortDescending(_)
SortDescending(s) ==
    IF s = <<>> THEN <<>>
    ELSE InsertDescending(s[Len(s)], SortDescending(SubSeq(s, 1, Len(s) - 1)))

RECURSIVE SortByPriority(_)
SortByPriority(s) ==
    IF s = <<>> THEN <<>>
    ELSE Insert(s[Len(s)], SortByPriority(SubSeq(s, 1, Len(s) - 1)))

(* Variant of the snapshot that ignores the enabled flags. *)
SnapshotUnfiltered(en) ==
    LET ms == SortByPriority(communicationMethods)
    IN  [k \in DOMAIN ms |-> ms[k].name]

(* const enabledMethods = this.communicationMethods.filter(..).sort(..) *)
Snapshot(en) ==
    LET ms == SortByPriority(FilterEnabled(communicationMethods, en))
    IN  [k \in DOMAIN ms |-> ms[k].name]

----------------------------------------------------------------------------
(* Transport adapters.  An invocation is a record:                         *)
(*   m        the adapter                                                  *)
(*   res      what it currently holds: "timer" (its 15 s setTimeout),      *)
(*            "script"/"callback" (JSONP), "frame"/"listener" (Iframe),    *)
(*            "stream" (SSE), "poll" (Pixel's setTimeout(checkResponse)),  *)
(*            "fetch" (Pixel's outstanding store request)                  *)
(*   timer    seconds left on its pending timer, -1 if none                *)
(*   attempts Pixel's attempts counter                                     *)
(*   fetchAge seconds the outstanding fetch has been pending, -1 if none   *)
(*   settled  whether the adapter's promise has resolved or rejected       *)
(* The 1x1 image request of sendViaPixel returns at once and is not kept.  *)

NoInst == [m |-> "none", res |-> {}, timer |-> -1, attempts |-> 0,
           fetchAge |-> -1, settled |-> FALSE]

(* A response body: null, or an object with the fields the adapters read. *)
Null == [null |-> TRUE, answer |-> "", error |-> ""]
Payloads == [null : {FALSE}, answer : {"", "ans"}, error : {"", "err"}]
Data == {Null} \cup Payloads

None == [kind |-> "none", value |-> ""]
Resolve(v) == [kind |-> "resolve", value |-> v]
Reject(v) == [kind |-> "reject", value |-> v]

(* clearTimeout(timeoutId) *)
ClearTimeout(i) == [i EXCEPT !.res = @ \ {"timer"}, !.timer = -1]

(* The adapter's own setTimeout callback is running: that timer is spent. *)
TimerFired(i) == [i EXCEPT !.res = @ \ {"timer"}, !.timer = -1]

(* ---- sendViaJSONP ---- *)
sendViaJSONP ==
    [NoInst EXCEPT !.m = "JSONP", !.res = {"script", "callback", "timer"},
                   !.timer = AdapterTimeout]

(* cleanup(): removeChild(script); delete window[callbackName] *)
JSONPCleanup(i) == [i EXCEPT !.res = @ \ {"script", "callback"}]

JSONPOnTimeout(i) ==
    [inst |-> JSONPCleanup(TimerFired(i)), result |-> Reject("JSONP timeout")]

(* window[callbackName](data); data.error on null throws after the cleanup, *)
(* so the promise is left pending.                                          *)
JSONPOnCallback(i, data) ==
    [inst |-> JSONPCleanup(ClearTimeout(i)),
     result |-> IF data = Null THEN None
                ELSE IF data.error # "" THEN Reject(Or(data.answer, "Erro JSONP"))
                ELSE Resolve(Or(data.answer, "Resposta JSONP recebida"))]

JSONPOnError(i) ==
    [inst |-> JSONPCleanup(ClearTimeout(i)),
     result |-> Reject("Erro ao carregar script JSONP")]

(* ---- sendViaIframe ---- *)
sendViaIframe ==
    [NoInst EXCEPT !.m = "Iframe", !.res = {"frame", "listener", "timer"},
                   !.timer = AdapterTimeout]

(* Variant of the frame cleanup that leaves the message listener. *)
IframeCleanupKeepsListener(i) == [i EXCEPT !.res = @ \ {"frame"}]

(* removeEventListener('message', ..); removeChild(iframe) *)
IframeCleanup(i) == [i EXCEPT !.res = @ \ {"frame", "listener"}]

IframeOnTimeout(i) ==
    [inst |-> IframeCleanup(TimerFired(i)), result |-> Reject("Iframe timeout")]

(* messageHandler(event) for an event of the backend's origin *)
IframeOnMessage(i, data) ==
    [inst |-> IframeCleanup(ClearTimeout(i)),
     result |-> IF data = Null THEN None
                ELSE IF data.error # "" THEN Reject(data.error)
                ELSE Resolve(Or(data.answer, "Resposta iframe recebida"))]

IframeOnError(i) ==
    [inst |-> IframeCleanup(ClearTimeout(i)),
     result |-> Reject("Erro ao carregar iframe")]

(* ---- sendViaSSE ---- *)
sendViaSSE ==
    [NoInst EXCEPT !.m = "SSE", !.res = {"stream", "timer"},
                   !.timer = AdapterTimeout]

(* eventSource.close() *)
SSEClose(i) == [i EXCEPT !.res = @ \ {"stream"}]

SSEOnTimeout(i) ==
    [inst |-> SSEClose(TimerFired(i)), result |-> Reject("SSE timeout")]

(* event.data of a stream event: a text that parses to `data`, or not. *)
Garbage == [parses |-> FALSE, data |-> Null]
Events == {Garbage} \cup [parses : {TRUE}, data : Data]

(* onmessage: JSON.parse(event.data); a body that does not parse, or that   *)
(* parses to null, ends in the catch branch.                                *)
SSEOnMessage(i, raw) ==
    [inst |-> SSEClose(ClearTimeout(i)),
     result |-> IF ~raw.parses \/ raw.data = Null
                THEN Reject("Erro ao parsear resposta SSE")
                ELSE IF raw.data.error # ""
                THEN Reject(Or(raw.data.answer, "Erro SSE"))
                ELSE Resolve(Or(raw.data.answer, "Resposta SSE recebida"))]

SSEOnError(i) ==
    [inst |-> SSEClose(ClearTimeout(i)), result |-> Reject("Erro de conexao SSE")]

(* ---- sendViaPixel ---- *)
(* Variant of the adapter whose first poll comes after the poll interval. *)
sendViaPixelEarly ==
    [NoInst EXCEPT !.m = "Pixel", !.res = {"poll"}, !.timer = PollInterval]

sendViaPixel ==
    [NoInst EXCEPT !.m = "Pixel", !.res = {"poll"}, !.timer = PollStart]

(* checkResponse, up to its await fetch(...) *)
PixelCheckResponse(i) ==
    LET n == i.attempts + 1 IN
    IF n > maxAttempts
    THEN [inst |-> [i EXCEPT !.attempts = n, !.res = {}, !.timer = -1],
          result |-> Reject("Pixel timeout")]
    ELSE [inst |-> [i EXCEPT !.attempts = n, !.res = {"fetch"}, !.timer = -1,
                             !.fetchAge = 0],
          result |-> None]

Throw == [threw |-> TRUE, found |-> FALSE, data |-> Null]
NotFound == [threw |-> FALSE, found |-> FALSE, data |-> Null]
Found(d) == [threw |-> FALSE, found |-> TRUE, data |-> d]
StoreAnswers == {Throw, NotFound} \cup {Found(d) : d \in Data}

(* checkResponse, after the fetch: resp is the parsed body, or Throw when   *)
(* the fetch or response.json() threw.                                      *)
PixelOnResponse(i, resp) ==
    IF ~resp.threw /\ resp.found /\ resp.data # Null
    THEN [inst |-> [i EXCEPT !.res = {}, !.fetchAge = -1],
          result |-> IF resp.data.error # ""
                     THEN Reject(Or(resp.data.answer, "Erro pixel"))
                     ELSE Resolve(Or(resp.data.answer, "Resposta pixel recebida"))]
    ELSE [inst |-> [i EXCEPT !.res = {"poll"}, !.fetchAge = -1,
                             !.timer = PollInterval],
          result |-> None]

(* method.func(question, this.dataContext) *)
Invoke(n) ==
    CASE n = "JSONP" -> sendViaJSONP
      [] n = "Iframe" -> sendViaIframe
      [] n = "SSE" -> sendViaSSE
      [] n = "Pixel" -> sendViaPixel

----------------------------------------------------------------------------
(* Fallback controller: sendMessageWithFallback, called by                 *)
(* handleSendMessage.                                                      *)

Min(a, b) == IF a < b THEN a ELSE b

Live(i) == IF i.res # {} THEN {i} ELSE {}

Insts == Live(cur) \cup abandoned

NoOutcome == [kind |-> "none", value |-> "", by |-> ""]

(* The bubbles of handleSendMessage: the user's message, the answer, and   *)
(* the error text `Erro de comunicacao: <message>` followed by `Dados       *)
(* disponiveis:` and the row count or 'Nenhum dado carregado'.              *)
UserMessage ==
    [type |-> "user", isError |-> FALSE, message |-> "question",
     data |-> "", rows |-> 0]

BotMessage(response) ==
    [type |-> "bot", isError |-> FALSE, message |-> response,
     data |-> "", rows |-> 0]

ErrorMessage(message, context) ==
    [type |-> "bot", isError |-> TRUE, message |-> message,
     data |-> IF context.hasData THEN "registros" ELSE "Nenhum dado carregado",
     rows |-> IF context.hasData THEN context.rowCount ELSE 0]

(* Variant of addMessageToChat that drops the bubble. *)
DropMessage(container, bubble) == container

(* container.appendChild(messageDiv) *)
addMessageToChat(container, bubble) == Append(container, bubble)

(* Variants of the loop: going on after a success, stopping at a failure. *)
ContinueAfterSuccess(kind, k, n) == IF k < n THEN k + 1 ELSE 0

ContinueNever(kind, k, n) == 0

(* The for loop after attempt k of n settled: `return result` leaves the   *)
(* loop, the catch branch falls through to the next method (0: loop over).  *)
Continue(kind, k, n) == IF kind = "reject" /\ k < n THEN k + 1 ELSE 0

(* Variant of the error record that keeps the first failure. *)
KeepFirstError(old, new) == IF old = "undefined" THEN new ELSE old

(* lastError = error as Error *)
RecordError(old, new) == new

(* Variant of the re-enable timer that is one second short. *)
ArmShort(timers) == Append(timers, Cooldown - 1)

(* setTimeout(() => { method.enabled = true; }, 30000) *)
ArmReenable(timers) == Append(timers, Cooldown)

(* Variant of the attempt whose timer is set four seconds later. *)
LateRaceTimer == RaceTimeout + 4

(* setTimeout(() => reject(new Error('Timeout geral')), 16000): the time   *)
(* the timer of Promise.race is set to.                                     *)
RaceTimer == RaceTimeout

(* Variant of the failure branch that disables every method. *)
DisableAll(flags, m) == [n \in DOMAIN flags |-> FALSE]

(* method.enabled = false *)
Disable(flags, m) == [flags EXCEPT ![m] = FALSE]

(* The race of attempt idx settles with result r (r.kind is "resolve" or   *)
(* "reject"); i2 is what is left of the awaited invocation.  The            *)
(* continuation of the await runs to the next await, or to the end of       *)
(* handleSendMessage.                                                       *)
Settle(i2, r) ==
    LET m == enabledMethods[idx]
        nxt == Continue(r.kind, idx, Len(enabledMethods))
        err == IF r.kind = "reject" THEN RecordError(lastError, r.value)
               ELSE lastError
    IN  /\ abandoned' = abandoned \cup Live(i2)
        /\ IF r.kind = "reject"
           THEN /\ enabled' = Disable(enabled, m)
                /\ reenable' = [reenable EXCEPT ![m] = ArmReenable(@)]
                /\ sinceFail' = [sinceFail EXCEPT ![m] = 0]
                /\ lastFail' = r.value
                /\ UNCHANGED lastUsedMethod
           ELSE /\ lastUsedMethod' = m
                /\ UNCHANGED <<enabled, reenable, sinceFail, lastFail>>
        /\ IF nxt # 0
           THEN /\ idx' = nxt
                /\ lastError' = err
                /\ cur' = Invoke(enabledMethods[nxt])
                /\ raceLeft' = RaceTimer
                /\ attempted' = Append(attempted, enabledMethods[nxt])
                /\ passed' = Append(passed, dataContext)
                /\ attemptAge' = 0
                /\ UNCHANGED <<loading, outcome, enabledMethods, bubbles>>
           ELSE /\ idx' = 0
                /\ lastError' = "undefined"
                /\ enabledMethods' = <<>>
                /\ cur' = NoInst
                /\ raceLeft' = -1
                /\ loading' = FALSE
                /\ outcome' = IF r.kind = "resolve"
                              THEN [kind |-> "resolved", value |-> r.value, by |-> m]
                              ELSE [kind |-> "rejected", value |-> err, by |-> ""]
                /\ bubbles' = IF r.kind = "resolve"
                              THEN addMessageToChat(bubbles, BotMessage(r.value))
                              ELSE addMessageToChat(bubbles,
                                                    ErrorMessage(err, dataContext))
                /\ attemptAge' = 0
                /\ UNCHANGED <<attempted, passed>>
        /\ UNCHANGED <<enabledAtStart, asked, callAge>>

(* Variant of the race in which a promise that settles late still names   *)
(* the method used.                                                         *)
LateWinner(last, m, result) == IF result.kind = "resolve" THEN m ELSE last

(* Promise.race has settled, or the promise has: a result of the promise   *)
(* that comes now reaches no continuation, and lastUsedMethod stays.        *)
RaceLoser(last, m, result) == last

(* A handler of invocation i ran and produced out = [inst, result].  A     *)
(* promise settles once: a result for a settled promise is dropped.         *)
Apply(isCur, i, out) ==
    LET eff == IF i.settled THEN None ELSE out.result
        i2 == [out.inst EXCEPT !.settled = i.settled \/ out.result.kind # "none"]
    IN  /\ leaked' = IF eff.kind # "none"
                     THEN leaked \cup {<<i.m, r>> : r \in i2.res}
                     ELSE leaked
        /\ late' = IF ~isCur /\ eff.kind # "none"
                   THEN late \cup {<<i.m, eff.kind>>}
                   ELSE late
        /\ IF isCur /\ eff.kind # "none"
           THEN /\ Settle(i2, eff)
                /\ wins' = IF eff.kind = "resolve"
                           THEN wins \cup {<<i.m, eff.value>>} ELSE wins
           ELSE /\ IF isCur
                   THEN cur' = i2 /\ UNCHANGED abandoned
                   ELSE abandoned' = (abandoned \ {i}) \cup Live(i2)
                                     /\ UNCHANGED cur
                /\ lastUsedMethod' = RaceLoser(lastUsedMethod, i.m, eff)
                /\ UNCHANGED <<enabled, reenable, loading, enabledMethods, idx,
                               raceLeft, lastError, outcome,
                               attempted, attemptAge, callAge, enabledAtStart,
                               asked,
                               sinceFail, lastFail, wins, passed, bubbles>>
        /\ UNCHANGED <<storeVars, proxyVars, runVars, ruleVars, parseVars, frameVars, errorVars>>

(* The invocations a handler can run on: the awaited one and the abandoned. *)
Targets == {<<TRUE, cur>>} \cup {<<FALSE, i>> : i \in abandoned}

Age(i) == AdapterTimeout - i.timer

NoTimerDue ==
    /\ raceLeft # 0
    /\ \A n \in Names : Len(reenable[n]) > 0 => reenable[n][1] # 0
    /\ \A i \in Insts : i.timer # 0

(* handleSendMessage with a non-empty message; the button is disabled      *)
(* while a question is being processed.                                     *)
Submit ==
    /\ ~loading
    /\ NoTimerDue
    /\ asked < MaxQuestions
    /\ LET snap == Snapshot(enabled) IN
       /\ enabledAtStart' = {n \in Names : enabled[n]}
       /\ asked' = asked + 1
       /\ attemptAge' = 0
       /\ callAge' = 0
       /\ wins' = {}
       /\ lastFail' = ""
       /\ lastError' = "undefined"
       /\ IF snap = <<>>
          THEN /\ outcome' = [kind |-> "rejected", value |-> lastError', by |-> ""]
               /\ attempted' = <<>>
               /\ passed' = <<>>
               /\ bubbles' = addMessageToChat(<<UserMessage>>,
                                 ErrorMessage(lastError', dataContext))
               /\ enabledMethods' = <<>>
               /\ UNCHANGED <<loading, idx, cur, raceLeft>>
          ELSE /\ outcome' = NoOutcome
               /\ enabledMethods' = snap
               /\ loading' = TRUE
               /\ idx' = 1
               /\ cur' = Invoke(snap[1])
               /\ raceLeft' = RaceTimer
               /\ attempted' = <<snap[1]>>
               /\ passed' = <<dataContext>>
               /\ bubbles' = <<UserMessage>>
    /\ UNCHANGED <<enabled, reenable, abandoned, lastUsedMethod, sinceFail,
                   leaked, late>>
    /\ UNCHANGED <<storeVars, proxyVars, runVars, ruleVars, parseVars, frameVars, errorVars>>

(* setTimeout(() => reject(new Error('Timeout geral')), 16000) fires. *)
RaceFire ==
    /\ loading
    /\ raceLeft = 0
    /\ Settle(cur, Reject("Timeout geral"))
    /\ UNCHANGED <<wins, leaked, late>>
    /\ UNCHANGED <<storeVars, proxyVars, runVars, ruleVars, parseVars, frameVars, errorVars>>

(* setTimeout(() => { method.enabled = true; }, 30000) fires. *)
ReenableFire ==
    \E n \in Names :
        /\ Len(reenable[n]) > 0
        /\ reenable[n][1] = 0
        /\ enabled' = [enabled EXCEPT ![n] = TRUE]
        /\ reenable' = [reenable EXCEPT ![n] = Tail(@)]
        /\ UNCHANGED <<loading, enabledMethods, idx, raceLeft, cur, abandoned,
                       lastError, lastUsedMethod, outcome, histVars>>
        /\ UNCHANGED <<storeVars, proxyVars, runVars, ruleVars, parseVars, frameVars, errorVars>>

JSONPTimeout ==
    \E t \in Targets :
        /\ t[2].m = "JSONP" /\ "timer" \in t[2].res /\ t[2].timer = 0
        /\ Apply(t[1], t[2], JSONPOnTimeout(t[2]))

JSONPCallback ==
    \E t \in Targets, data \in Data :
        /\ t[2].m = "JSONP" /\ "callback" \in t[2].res /\ Age(t[2]) <= MaxLatency
        /\ Apply(t[1], t[2], JSONPOnCallback(t[2], data))

JSONPError ==
    \E t \in Targets :
        /\ t[2].m = "JSONP" /\ "script" \in t[2].res /\ Age(t[2]) <= MaxLatency
        /\ Apply(t[1], t[2], JSONPOnError(t[2]))

IframeTimeout ==
    \E t \in Targets :
        /\ t[2].m = "Iframe" /\ "timer" \in t[2].res /\ t[2].timer = 0
        /\ Apply(t[1], t[2], IframeOnTimeout(t[2]))

IframeMessage ==
    \E t \in Targets, data \in Data :
        /\ t[2].m = "Iframe" /\ "listener" \in t[2].res /\ Age(t[2]) <= MaxLatency
        /\ Apply(t[1], t[2], IframeOnMessage(t[2], data))

IframeError ==
    \E t \in Targets :
        /\ t[2].m = "Iframe" /\ "frame" \in t[2].res /\ Age(t[2]) <= MaxLatency
        /\ Apply(t[1], t[2], IframeOnError(t[2]))

SSETimeout ==
    \E t \in Targets :
        /\ t[2].m = "SSE" /\ "timer" \in t[2].res /\ t[2].timer = 0
        /\ Apply(t[1], t[2], SSEOnTimeout(t[2]))

SSEMessage ==
    \E t \in Targets, raw \in Events :
        /\ t[2].m = "SSE" /\ "stream" \in t[2].res /\ Age(t[2]) <= MaxLatency
        /\ Apply(t[1], t[2], SSEOnMessage(t[2], raw))

SSEError ==
    \E t \in Targets :
        /\ t[2].m = "SSE" /\ "stream" \in t[2].res /\ Age(t[2]) <= MaxLatency
        /\ Apply(t[1], t[2], SSEOnError(t[2]))

(* setTimeout(checkResponse, ..) fires; the race timer, created before any *)
(* poll timer, goes first when both are due.                                *)
PixelPoll ==
    \E t \in Targets :
        /\ t[2].m = "Pixel" /\ "poll" \in t[2].res /\ t[2].timer = 0
        /\ t[1] => raceLeft # 0
        /\ Apply(t[1], t[2], PixelCheckResponse(t[2]))

PixelResponse ==
    \E t \in Targets, resp \in StoreAnswers :
        /\ t[2].m = "Pixel" /\ "fetch" \in t[2].res
        /\ Apply(t[1], t[2], PixelOnResponse(t[2], resp))

Dec(x) == IF x > 0 THEN x - 1 ELSE x

TickInst(i) ==
    [i EXCEPT !.timer = Dec(@),
              !.fetchAge = IF @ >= 0 THEN @ + 1 ELSE @]

(* One second passes.  The record kept of a finished question (outcome,    *)
(* attempted, enabledAtStart, lastFail, wins, late, passed, bubbles) is     *)
(* dropped when the clock moves on.                                         *)
Tick ==
    /\ NoTimerDue
    /\ \A i \in Insts : i.fetchAge < MaxLatency
    /\ raceLeft' = Dec(raceLeft)
    /\ reenable' = [n \in Names |->
                      [k \in DOMAIN reenable[n] |-> Dec(reenable[n][k])]]
    /\ cur' = TickInst(cur)
    /\ abandoned' = {TickInst(i) : i \in abandoned}
    /\ attemptAge' = IF loading THEN Min(attemptAge + 1, AgeCap) ELSE attemptAge
    /\ callAge' = IF loading THEN Min(callAge + 1, CallCap) ELSE 0
    /\ sinceFail' = [n \in Names |-> Min(sinceFail[n] + 1, Cooldown)]
    /\ IF loading
       THEN UNCHANGED <<outcome, attempted, enabledAtStart, lastFail, wins,
                        late, passed, bubbles>>
       ELSE /\ outcome' = NoOutcome
            /\ late' = {}
            /\ attempted' = <<>>
            /\ passed' = <<>>
            /\ bubbles' = <<>>
            /\ enabledAtStart' = {}
            /\ lastFail' = ""
            /\ wins' = {}
    /\ UNCHANGED <<enabled, loading, enabledMethods, idx, lastError,
                   lastUsedMethod, asked, leaked>>
    /\ UNCHANGED <<storeVars, proxyVars, runVars, ruleVars, parseVars, frameVars, errorVars>>

WidgetInit ==
    /\ enabled = [n \in Names |-> TRUE]
    /\ reenable = [n \in Names |-> <<>>]
    /\ loading = FALSE
    /\ enabledMethods = <<>>
    /\ idx = 0
    /\ raceLeft = -1
    /\ cur = NoInst
    /\ abandoned = {}
    /\ lastError = "undefined"
    /\ lastUsedMethod = ""
    /\ outcome = NoOutcome
    /\ attempted = <<>>
    /\ attemptAge = 0
    /\ callAge = 0
    /\ enabledAtStart = {}
    /\ asked = 0
    /\ sinceFail = [n \in Names |-> Cooldown]
    /\ lastFail = ""
    /\ wins = {}
    /\ leaked = {}
    /\ late = {}
    /\ passed = <<>>
    /\ bubbles = <<>>

----------------------------------------------------------------------------
(* storage-bridge: exports.handler and its cleanup timers, on a clock of   *)
(* one minute.  An object is a function from field names to values.        *)

CleanupDelay == 5

(* Bounds of the model: the minutes the store clock runs, and the number   *)
(* of store requests.                                                      *)
StoreHorizon == 5
MaxStores == 2

Sessions == {"s1", "s2"}

(* The payloads the image-beacon proxy posts: an answer, or a fallback     *)
(* answer with the error that caused it.                                    *)
StorePayloads ==
    { [answer |-> "a1", method |-> "PIXEL"],
      [answer |-> "a2", method |-> "PIXEL_FALLBACK", error |-> "e"] }

(* { ...data, storedAt: new Date().toISOString() } *)
Stamp(data, now) ==
    [f \in DOMAIN data \cup {"storedAt"} |->
        IF f = "storedAt" THEN now ELSE data[f]]

(* Variant of delete that leaves the entry. *)
MapKeep(map, key) == map

(* Map.prototype.set / delete on a function over the keys present. *)
MapSet(map, key, v) ==
    [k \in DOMAIN map \cup {key} |-> IF k = key THEN v ELSE map[k]]
MapDelete(map, key) == [k \in DOMAIN map \ {key} |-> map[k]]

EmptyMap == [k \in {} |-> 0]

(* Requests: a POST with its body (wellFormed: the body parses), a GET     *)
(* with its session parameter ("" when absent), and the other methods.      *)
StoreEvents ==
    [httpMethod : {"POST"}, wellFormed : {TRUE}, action : {"store"},
     sessionId : Sessions, data : StorePayloads]
GetEvents == [httpMethod : {"GET"}, sessionId : Sessions \cup {""}]
OtherEvents ==
    { [httpMethod |-> "POST", wellFormed |-> FALSE],
      [httpMethod |-> "POST", wellFormed |-> TRUE, action |-> "other"],
      [httpMethod |-> "OPTIONS"],
      [httpMethod |-> "PUT"] }

(* exports.handler(event): the map afterwards, the session a cleanup timer *)
(* is armed for ("" for none), and the response.                            *)
handler(map, event, now) ==
    LET same(code, body) ==
            [map |-> map, arm |-> "", statusCode |-> code, body |-> body]
    IN
    IF event.httpMethod = "OPTIONS" THEN same(200, [empty |-> TRUE])
    ELSE IF event.httpMethod = "POST" /\ ~event.wellFormed
    THEN same(500, [error |-> "Internal error"])
    ELSE IF event.httpMethod = "POST" /\ event.action = "store"
    THEN [map |-> MapSet(map, event.sessionId, Stamp(event.data, now)),
          arm |-> event.sessionId,
          statusCode |-> 200,
          body |-> [stored |-> TRUE, sessionId |-> event.sessionId]]
    ELSE IF event.httpMethod = "GET"
    THEN IF event.sessionId = ""
         THEN same(400, [error |-> "Session ID required"])
         ELSE IF event.sessionId \in DOMAIN map
         THEN [map |-> MapDelete(map, event.sessionId),
               arm |-> "",
               statusCode |-> 200,
               body |-> [found |-> TRUE, data |-> map[event.sessionId]]]
         ELSE same(200, [found |-> FALSE, sessionId |-> event.sessionId,
                         waiting |-> TRUE])
    ELSE same(405, [error |-> "Method not allowed"])

NoStore == [data |-> [none |-> TRUE], at |-> 0]

Last2(s) == IF Len(s) > 2 THEN SubSeq(s, Len(s) - 1, Len(s)) ELSE s

Note(sid, what) == [trail EXCEPT ![sid] = Last2(Append(@, what))]

StoreInit ==
    /\ responses = EmptyMap
    /\ cleanups = <<>>
    /\ storeNow = 0
    /\ reply = [statusCode |-> 0, body |-> [empty |-> TRUE]]
    /\ request = [kind |-> "none", sid |-> ""]
    /\ stores = 0
    /\ trail = [sid \in Sessions |-> <<>>]
    /\ lastStored = [sid \in Sessions |-> NoStore]
    /\ took = [sid \in Sessions |-> <<>>]

(* Variant of the store branch that arms no cleanup timer. *)
ArmNoCleanup(timers, sid) == timers

(* setTimeout(() => { responses.delete(sessionId); }, 5 * 60 * 1000) *)
ArmCleanup(timers, sid) ==
    Append(timers, [sid |-> sid, left |-> CleanupDelay])

Respond(event, r) ==
    /\ responses' = r.map
    /\ cleanups' = IF r.arm = "" THEN cleanups
                   ELSE ArmCleanup(cleanups, r.arm)
    /\ reply' = [statusCode |-> r.statusCode, body |-> r.body]
    /\ UNCHANGED <<storeNow, widgetVars, proxyVars, runVars, ruleVars, parseVars, frameVars, errorVars>>

(* POST {action: "store", sessionId, data} *)
StorePost ==
    \E event \in StoreEvents :
        /\ stores < MaxStores
        /\ Respond(event, handler(responses, event, storeNow))
        /\ request' = [kind |-> "store", sid |-> event.sessionId]
        /\ stores' = stores + 1
        /\ trail' = Note(event.sessionId, "store")
        /\ lastStored' = [lastStored EXCEPT ![event.sessionId] =
                             [data |-> event.data, at |-> storeNow]]
        /\ took' = [took EXCEPT ![event.sessionId] = <<>>]

(* GET ?session=<id> *)
StoreGet ==
    \E event \in GetEvents :
        /\ event.sessionId # ""
        /\ Respond(event, handler(responses, event, storeNow))
        /\ request' = [kind |-> "get", sid |-> event.sessionId]
        /\ trail' = Note(event.sessionId,
                         IF event.sessionId \in DOMAIN responses
                         THEN "hit" ELSE "miss")
        /\ took' = IF event.sessionId \in DOMAIN responses
                   THEN [took EXCEPT ![event.sessionId] = Append(@, "fetch")]
                   ELSE took
        /\ UNCHANGED <<stores, lastStored>>

(* Any other request: OPTIONS, another method, a GET without session, a    *)
(* POST whose body does not parse or whose action is not "store".          *)
StoreOther ==
    \E event \in OtherEvents \cup {e \in GetEvents : e.sessionId = ""} :
        /\ Respond(event, handler(responses, event, storeNow))
        /\ request' = [kind |-> "other", sid |-> ""]
        /\ UNCHANGED <<stores, trail, lastStored, took>>

(* setTimeout(() => { responses.delete(sessionId); }, 5 * 60 * 1000) fires; *)
(* the timers have one delay, so they come due in creation order.           *)
CleanupFire ==
    /\ Len(cleanups) > 0
    /\ cleanups[1].left = 0
    /\ responses' = MapDelete(responses, cleanups[1].sid)
    /\ cleanups' = Tail(cleanups)
    /\ trail' = Note(cleanups[1].sid, "cleanup")
    /\ took' = IF cleanups[1].sid \in DOMAIN responses
               THEN [took EXCEPT ![cleanups[1].sid] = Append(@, "cleanup")]
               ELSE took
    /\ UNCHANGED <<storeNow, reply, request, stores, lastStored, widgetVars,
                   proxyVars, runVars, ruleVars, parseVars, frameVars, errorVars>>

(* One minute passes. *)
StoreTick ==
    /\ storeNow < StoreHorizon
    /\ \A k \in DOMAIN cleanups : cleanups[k].left # 0
    /\ storeNow' = storeNow + 1
    /\ cleanups' = [k \in DOMAIN cleanups |->
                      [cleanups[k] EXCEPT !.left = @ - 1]]
    /\ UNCHANGED <<responses, reply, request, stores, trail, lastStored,
                   took, widgetVars, proxyVars, runVars, ruleVars, parseVars, frameVars, errorVars>>

----------------------------------------------------------------------------
(* Data context extractor: Visual.update and Visual.processDataView.       *)
(* A host view has a categorical section or not; a column has a display    *)
(* name, a measure flag and its values.  A cell is named by the column it  *)
(* comes from and its row.                                                 *)

SampleLimit == 10

Max(a, b) == IF a > b THEN a ELSE b

(* Bound of the model: the row counts of the host views. *)
RowCounts == {0, 10, 12}

Undefined == [undefined |-> TRUE]

Column(tag, name, measure, n) ==
    [displayName |-> name, isMeasure |-> measure,
     values |-> [i \in 1..n |-> [src |-> tag, row |-> i]]]

(* The category and measure columns of the host views of n rows; a measure *)
(* may carry the display name of a category, or be one row short.          *)
CategorySets(n) ==
    { <<>>,
      << Column("c1", "Medico", FALSE, n) >>,
      << Column("c1", "Medico", FALSE, n), Column("c2", "Cidade", FALSE, n) >> }

ValueSets(n) ==
    { <<>>,
      << Column("m1", "Vendas", TRUE, n) >>,
      << Column("m1", "Medico", TRUE, n) >>,
      << Column("m1", "Vendas", TRUE, Max(n - 1, 0)) >> }

MissingView ==
    [defined |-> FALSE, categorical |-> FALSE, categories |-> <<>>,
     values |-> <<>>]

Views ==
    { [defined |-> TRUE, categorical |-> FALSE, categories |-> <<>>,
       values |-> <<>>] }
    \cup
    UNION { { [defined |-> TRUE, categorical |-> TRUE, categories |-> cs,
               values |-> vs] : cs \in CategorySets(n), vs \in ValueSets(n) } :
            n \in RowCounts }

(* Variant of the default context that claims data. *)
FlaggedContext ==
    [hasData |-> TRUE, rowCount |-> 0, columns |-> <<>>, sampleData |-> <<>>]

EmptyContext ==
    [hasData |-> FALSE, rowCount |-> 0, columns |-> <<>>, sampleData |-> <<>>]

(* Variant of the sample that takes every row. *)
SampleAll(rowCount) == rowCount

(* Math.min(rowCount, 10) *)
SampleSize(rowCount) == Min(rowCount, SampleLimit)

(* Variant of the row count that takes the last column. *)
CountLast(allColumns) == Len(allColumns[Len(allColumns)].values)

(* allColumns[0]?.values.length || 0 *)
CountFirst(allColumns) == Len(allColumns[1].values)

(* col.values[i], undefined past the end *)
ValueAt(col, i) == IF i <= Len(col.values) THEN col.values[i] ELSE Undefined

(* processDataView(dataView): a row is an object keyed by display name, so  *)
(* of two columns with one name the later one is kept.                      *)
processDataView(dv) ==
    IF ~dv.defined \/ ~dv.categorical THEN EmptyContext
    ELSE
    LET allColumns == dv.categories \o dv.values IN
    IF Len(allColumns) = 0 THEN EmptyContext
    ELSE
    LET rowCount == CountFirst(allColumns)
        names == {allColumns[k].displayName : k \in DOMAIN allColumns}
        last(n) == CHOOSE k \in DOMAIN allColumns :
                      /\ allColumns[k].displayName = n
                      /\ \A j \in DOMAIN allColumns :
                            allColumns[j].displayName = n => j <= k
    IN  [hasData |-> TRUE,
         rowCount |-> rowCount,
         columns |-> [k \in DOMAIN allColumns |->
                        [name |-> allColumns[k].displayName,
                         type |-> IF allColumns[k].isMeasure THEN "medida"
                                  ELSE "categoria"]],
         sampleData |-> [i \in 1..SampleSize(rowCount) |->
                           [n \in names |-> ValueAt(allColumns[last(n)], i)]]]

----------------------------------------------------------------------------
(* Backend proxies: the handlers of chat, chat-jsonp, chat-iframe, chat-sse *)
(* and chat-pixel, for a GET request carrying the widget's data context.    *)
(*                                                                          *)
(* A question is `pad` characters that match no keyword followed by the     *)
(* first `kept` characters of `word`.  An answer text is described by what  *)
(* it says: whether it is defined, its kind ("bot" for the bot's text,      *)
(* "fallback", "error", "" for the empty string), the keyword category of   *)
(* a rule-based answer, the record counts it prints and the question it     *)
(* quotes.                                                                  *)

QuestionLimit == 500
EchoLimit == 100
ChatPolls == 3
JsonpPolls == 3
IframePolls == 4
SsePolls == 6
PixelPolls == 5

(* Bounds of the model: the questions asked, and the server clock. *)
Pads == {0, 496}
Words == {"", "total", "medico", "quantidade"}
LongWords == {"total"}
MaxClock == 1

Question(pad, word) == [pad |-> pad, word |-> word, kept |-> Len(word)]

Questions ==
    {Question(0, w) : w \in Words}
    \cup {Question(n, w) : n \in Pads, w \in LongWords}

(* Variant of substring that returns the whole text. *)
Whole(q, limit) == q

(* question.substring(0, limit) *)
Substring(q, limit) ==
    LET k == Max(0, Min(q.kept, limit - q.pad)) IN
    [pad |-> Min(q.pad, limit),
     word |-> IF k = 0 THEN "" ELSE q.word,
     kept |-> k]

(* !question *)
IsEmpty(q) == q.pad + q.kept = 0

(* params.question || 'Pergunta nao informada' *)
NotInformed == Question(0, "Pergunta nao informada")
QuestionOr(q) == IF IsEmpty(q) THEN NotInformed ELSE q

(* terms.some(term => q.includes(term)) *)
Includes(q, terms) ==
    /\ q.word \in terms
    /\ q.kept = Len(q.word)

(* The conversational backend during one exchange: whether it accepts the  *)
(* conversation, whether the message post goes through, and what the polls *)
(* find: a bot message with a text, with an empty text, without text, or   *)
(* none at all.                                                            *)
Backends ==
    { [conversation |-> "refused", post |-> "none", reply |-> "none"],
      [conversation |-> "ok", post |-> "throws", reply |-> "none"],
      [conversation |-> "ok", post |-> "ok", reply |-> "none"],
      [conversation |-> "ok", post |-> "ok", reply |-> "text"],
      [conversation |-> "ok", post |-> "ok", reply |-> "empty"],
      [conversation |-> "ok", post |-> "ok", reply |-> "missing"] }

Thrown(message, calls, sent) ==
    [ok |-> FALSE, defined |-> FALSE, text |-> "", error |-> message,
     calls |-> calls, forwarded |-> sent]

(* Variant of the credential check that lets the exchange go on. *)
SecretIgnored(secret) == TRUE

(* if (!directLineSecret) throw *)
SecretPresent(secret) == secret

(* sendToCopilot*(...): the conversation, the message post and the polls;   *)
(* calls counts the requests made to the backend, forwarded holds the       *)
(* question put in the message.                                             *)
sendToCopilot(secret, backend, polls, question) ==
    IF ~SecretPresent(secret)
    THEN Thrown("COPILOT_SECRET nao configurada", 0, {})
    ELSE IF backend.conversation # "ok"
    THEN Thrown("Conversa falhou", 1, {})
    ELSE IF backend.post # "ok"
    THEN Thrown("fetch failed", 2, {})
    ELSE IF backend.reply = "none"
    THEN Thrown("Polling timeout", 2 + polls, {question})
    ELSE [ok |-> TRUE,
          defined |-> backend.reply # "missing",
          text |-> IF backend.reply = "text" THEN "bot" ELSE "",
          error |-> "",
          calls |-> 3,
          forwarded |-> {question}]

BotAnswer(r) ==
    [defined |-> r.defined, text |-> r.text, category |-> "", shown |-> {},
     echo |-> {}]

(* Variant of the rule-based answer that prints the server clock. *)
TimedAnswer(category, shown, echo) ==
    [defined |-> TRUE, text |-> "fallback", category |-> category,
     shown |-> shown \cup {clock}, echo |-> echo]

(* A rule-based answer: the template literal of the matched category. *)
RuleAnswer(category, shown, echo) ==
    [defined |-> TRUE, text |-> "fallback", category |-> category,
     shown |-> shown, echo |-> echo]

ErrorAnswer ==
    [defined |-> TRUE, text |-> "error", category |-> "", shown |-> {},
     echo |-> {}]

(* answer is falsy, or left out by JSON.stringify *)
EmptyAnswer(a) == ~a.defined \/ a.text = ""

(* chat.js: generateIntelligentFallback(question, context); the first      *)
(* matching entry of questionTypes is the category.  The sample lines and  *)
(* the column count the text also prints are left out.                     *)
generateIntelligentFallback(question, context) ==
    LET hasData == Len(context) > 0
        rowCount == IF hasData THEN Len(context) ELSE 0
        responseType ==
            IF Includes(question, {"total", "soma", "sum", "somar", "calcular"})
            THEN "totals"
            ELSE IF Includes(question, {"quantidade", "qtd", "quantos", "count",
                                        "numero"})
            THEN "quantities"
            ELSE IF Includes(question, {"vendas", "receita", "faturamento",
                                        "revenue", "sales"})
            THEN "sales"
            ELSE IF Includes(question, {"medico", "doctor", "dr.", "dra.",
                                        "profissional"})
            THEN "doctors"
            ELSE IF Includes(question, {"media", "average", "mean", "medio"})
            THEN "averages"
            ELSE IF Includes(question, {"comparar", "versus", "vs", "diferenca",
                                        "maior", "menor"})
            THEN "comparisons"
            ELSE "general"
    IN  RuleAnswer(responseType,
                   IF hasData THEN {rowCount} ELSE {},
                   IF hasData /\ responseType \notin {"totals", "doctors", "sales"}
                   THEN {Substring(question, EchoLimit)} ELSE {})

(* chat-jsonp.js: generateSmartFallback(question, context, hasData, rowCount) *)
generateSmartFallback(question, context, hasData, rowCount) ==
    IF Includes(question, {"total", "soma", "sum"})
    THEN RuleAnswer("totals", IF hasData THEN {rowCount} ELSE {}, {question})
    ELSE IF Includes(question, {"medico", "doctor", "quantidade"})
    THEN RuleAnswer("doctors", {rowCount}, {question})
    ELSE IF Includes(question, {"vendas", "receita", "sales"})
    THEN RuleAnswer("sales", {rowCount}, {question})
    ELSE RuleAnswer("general", IF hasData THEN {rowCount} ELSE {}, {question})

(* chat-iframe: generateIframeFallback(question, context, hasData, rowCount) *)
generateIframeFallback(question, context, hasData, rowCount) ==
    IF Includes(question, {"quantidade", "medico"})
    THEN RuleAnswer("doctors", IF hasData THEN {rowCount} ELSE {}, {question})
    ELSE RuleAnswer("general", IF hasData THEN {rowCount} ELSE {}, {question})

(* chat-sse: generateFallbackResponse(question, context) *)
generateFallbackResponseSse(question, context) ==
    LET hasData == Len(context) > 0
        rowCount == IF hasData THEN Len(context) ELSE 0
        shown == IF hasData THEN {rowCount} ELSE {}
    IN  IF Includes(question, {"total", "soma"})
        THEN RuleAnswer("totals", shown, {})
        ELSE IF Includes(question, {"quantidade", "qtd"})
        THEN RuleAnswer("quantities", shown, {})
        ELSE RuleAnswer("general", shown, {question})

(* chat-pixel.js: generateFallbackResponse(question, context) *)
generateFallbackResponsePixel(question, context) ==
    LET hasData == Len(context) > 0
        rowCount == IF hasData THEN Len(context) ELSE 0
        shown == IF hasData THEN {rowCount} ELSE {}
    IN  IF Includes(question, {"medico", "doctor"})
        THEN RuleAnswer("doctors", shown, {})
        ELSE IF Includes(question, {"vendas", "receita"})
        THEN RuleAnswer("sales", shown, {})
        ELSE RuleAnswer("general", shown, {question})

(* Number.prototype.toString and parseInt, on decimal digits. *)
RECURSIVE Digits(_)
Digits(n) == IF n < 10 THEN <<n>> ELSE Digits(n \div 10) \o <<n % 10>>

RECURSIVE ParseInt(_)
ParseInt(ds) ==
    IF ds = <<>> THEN 0 ELSE 10 * ParseInt(SubSeq(ds, 1, Len(ds) - 1)) + ds[Len(ds)]

(* Boolean.prototype.toString *)
BoolString(b) == IF b THEN "true" ELSE "false"

(* JSON.stringify(context.sampleData || []) read back by JSON.parse: keys   *)
(* whose value is undefined are left out.                                   *)
Json(rows) ==
    [i \in DOMAIN rows |->
        [n \in {k \in DOMAIN rows[i] : rows[i][k] # Undefined} |-> rows[i][n]]]

(* The query string the adapters build from this.dataContext. *)
Params(question, ctx) ==
    [question |-> question,
     hasData |-> BoolString(ctx.hasData),
     rowCount |-> Digits(ctx.rowCount),
     context |-> Json(ctx.sampleData)]

Reply(via, answer, method, error, r) ==
    [statusCode |-> 200,
     via |-> via,
     payload |-> [answer |-> answer, method |-> method, error |-> error,
                  timestamp |-> clock],
     calls |-> r.calls,
     forwarded |-> r.forwarded]

NoCall == Thrown("", 0, {})

(* chat.js exports.handler *)
chat(params, secret, backend) ==
    LET question == Substring(params.question, QuestionLimit) IN
    IF IsEmpty(question)
    THEN Reply("body", ErrorAnswer, "ERROR_RECOVERY", "true", NoCall)
    ELSE
    LET r == sendToCopilot(secret, backend, ChatPolls, question)
        copilotResponse == BotAnswer(r)
    IN  Reply("body",
              IF r.ok /\ ~EmptyAnswer(copilotResponse) THEN copilotResponse
              ELSE generateIntelligentFallback(question, params.context),
              IF r.ok THEN "COPILOT" ELSE "FALLBACK",
              "", r)

(* chat-jsonp.js exports.handler *)
chatJsonp(params, secret, backend) ==
    LET question == QuestionOr(params.question)
        hasData == params.hasData = "true"
        rowCount == ParseInt(params.rowCount)
        r == sendToCopilot(secret, backend, JsonpPolls, question)
    IN  Reply("body",
              IF r.ok THEN BotAnswer(r)
              ELSE generateSmartFallback(question, params.context, hasData,
                                         rowCount),
              IF r.ok THEN "JSONP_COPILOT" ELSE "JSONP_FALLBACK",
              "", r)

(* chat-iframe exports.handler: the page it returns posts the payload *)
chatIframe(params, secret, backend) ==
    LET question == QuestionOr(params.question)
        hasData == params.hasData = "true"
        rowCount == ParseInt(params.rowCount)
        r == sendToCopilot(secret, backend, IframePolls, question)
    IN  Reply("message",
              IF r.ok THEN BotAnswer(r)
              ELSE generateIframeFallback(question, params.context, hasData,
                                          rowCount),
              IF r.ok THEN "IFRAME_COPILOT" ELSE "IFRAME_FALLBACK",
              "", r)

(* chat-sse exports.handler *)
chatSse(params, secret, backend) ==
    LET question == QuestionOr(params.question)
        r == sendToCopilot(secret, backend, SsePolls, question)
    IN  IF r.ok THEN Reply("body", BotAnswer(r), "SSE", "", r)
        ELSE Reply("body", generateFallbackResponseSse(question, params.context),
                   "SSE_FALLBACK", r.error, r)

(* chat-pixel.js exports.handler: the image is returned at once and the    *)
(* payload is posted to the storage bridge by the background task.         *)
chatPixel(params, secret, backend) ==
    LET question == QuestionOr(params.question)
        r == sendToCopilot(secret, backend, PixelPolls, question)
    IN  IF r.ok THEN Reply("store", BotAnswer(r), "PIXEL", "", r)
        ELSE Reply("store",
                   generateFallbackResponsePixel(question, params.context),
                   "PIXEL_FALLBACK", r.error, r)

Proxies == {"chat", "chat-jsonp", "chat-iframe", "chat-sse", "chat-pixel"}

Handle(proxy, params, secret, backend) ==
    CASE proxy = "chat" -> chat(params, secret, backend)
      [] proxy = "chat-jsonp" -> chatJsonp(params, secret, backend)
      [] proxy = "chat-iframe" -> chatIframe(params, secret, backend)
      [] proxy = "chat-sse" -> chatSse(params, secret, backend)
      [] proxy = "chat-pixel" -> chatPixel(params, secret, backend)

(* What the transport adapter does with a payload it receives: sendViaJSONP, *)
(* sendViaIframe, sendViaSSE and sendViaPixel reject when its error field   *)
(* is truthy and resolve otherwise.                                         *)
OnPayload(payload) == IF payload.error # "" THEN "reject" ELSE "resolve"

(* The deployment: COPILOT_SECRET set or not, and the backend's behaviour. *)
Unreached == [conversation |-> "refused", post |-> "none", reply |-> "none"]
Environments ==
    {[secret |-> FALSE, backend |-> Unreached]}
    \cup {[secret |-> TRUE, backend |-> b] : b \in Backends}

NoExchange == [proxy |-> "none"]

Exchange(proxy, question, env) ==
    [proxy |-> proxy, question |-> question, secret |-> env.secret,
     backend |-> env.backend,
     response |-> Handle(proxy, Params(question, dataContext), env.secret,
                         env.backend)]

ProxyInit ==
    /\ dataView = MissingView
    /\ dataContext = EmptyContext
    /\ clock = 0
    /\ exchange = NoExchange
    /\ repeat = NoExchange

(* update(options): options.dataViews?.[0] is processed when it is there.  *)
(* The handler is synchronous and an exchange is one step here, so the     *)
(* host's updates fall between exchanges.                                   *)
update ==
    \E dv \in Views \cup {MissingView} :
        /\ exchange = NoExchange
        /\ dataView' = IF dv.defined THEN dv ELSE dataView
        /\ dataContext' = IF dv.defined THEN processDataView(dv) ELSE dataContext
        /\ exchange' = NoExchange
        /\ repeat' = NoExchange
        /\ UNCHANGED <<clock, widgetVars, storeVars,
                   runVars, ruleVars, parseVars, frameVars, errorVars>>

(* Bound of the model: the views the host delivers while the widget is    *)
(* followed through its questions.                                          *)
HostViews ==
    { [defined |-> TRUE, categorical |-> TRUE,
       categories |-> << Column("c1", "Medico", FALSE, 12) >>,
       values |-> << Column("m1", "Vendas", TRUE, 12) >>] }

(* update(options) as the chat sees it: the host may deliver a view at any *)
(* moment, also while a question is being processed.                        *)
Refresh ==
    \E dv \in HostViews :
        /\ dataView' = dv
        /\ dataContext' = processDataView(dv)
        /\ UNCHANGED <<clock, exchange, repeat, widgetVars, storeVars,
                       runVars, ruleVars, parseVars, frameVars, errorVars>>

(* One GET request to a proxy, built from the current data context; one   *)
(* exchange is followed at a time.                                          *)
Requested ==
    /\ repeat' = NoExchange
    /\ UNCHANGED <<dataView, dataContext, clock, widgetVars, storeVars,
                   runVars, ruleVars, parseVars, frameVars, errorVars>>

Chat ==
    /\ exchange = NoExchange
    /\ \E question \in Questions, env \in Environments :
          exchange' = Exchange("chat", question, env)
    /\ Requested

ChatJsonp ==
    /\ exchange = NoExchange
    /\ \E question \in Questions, env \in Environments :
          exchange' = Exchange("chat-jsonp", question, env)
    /\ Requested

ChatIframe ==
    /\ exchange = NoExchange
    /\ \E question \in Questions, env \in Environments :
          exchange' = Exchange("chat-iframe", question, env)
    /\ Requested

ChatSse ==
    /\ exchange = NoExchange
    /\ \E question \in Questions, env \in Environments :
          exchange' = Exchange("chat-sse", question, env)
    /\ Requested

ChatPixel ==
    /\ exchange = NoExchange
    /\ \E question \in Questions, env \in Environments :
          exchange' = Exchange("chat-pixel", question, env)
    /\ Requested

(* The exchange and its repetitions are over. *)
Finish ==
    /\ exchange # NoExchange
    /\ exchange' = NoExchange
    /\ repeat' = NoExchange
    /\ UNCHANGED <<dataView, dataContext, clock, widgetVars, storeVars,
                   runVars, ruleVars, parseVars, frameVars, errorVars>>

(* The same question with the same data context, asked of the same proxy   *)
(* again. *)
Repeat ==
    /\ exchange # NoExchange
    /\ \E env \in Environments :
          repeat' = Exchange(exchange.proxy, exchange.question, env)
    /\ UNCHANGED <<dataView, dataContext, clock, exchange, widgetVars, storeVars,
                   runVars, ruleVars, parseVars, frameVars, errorVars>>

(* The server clock moves on. *)
ProxyTick ==
    /\ clock < MaxClock
    /\ clock' = clock + 1
    /\ UNCHANGED <<dataView, dataContext, exchange, repeat, widgetVars, storeVars,
                   runVars, ruleVars, parseVars, frameVars, errorVars>>

----------------------------------------------------------------------------
(* One proxy invocation in time: the handler, the exchange function it     *)
(* awaits (sendToCopilotOptimized, sendToCopilotFast, sendToCopilotIframe,  *)
(* sendToCopilot) and their timers, in milliseconds.                        *)
(*                                                                          *)
(* An upstream call completes after a latency or never.  Timers follow      *)
(* Node's rules: a callback runs no earlier than its delay, possibly later, *)
(* and the order of callbacks that are due together is not guaranteed; a    *)
(* promise continuation runs right after the callback that settled the      *)
(* promise, so the two are one action.                                      *)

MAX_EXECUTION_TIME == 8500
COPILOT_TIMEOUT == 6000
POLLING_INTERVAL == 1500
ConversationTimeout == 2000
PostTimeout == 1500
PollTimeout == 1000
JsonpRace == 5000
JsonpInterval == 1200
IframeRace == 6000
IframeInterval == 1300
SseInterval == 1500
PixelInterval == 2000

(* No such timer, or a call that never completes. *)
Off == -1

(* Bound of the model: the latencies of an upstream call that completes. *)
Latencies == {0, 3000}

(* The timers and limits of each proxy; pollCatch: a poll that throws is   *)
(* caught inside the loop.                                                  *)
Profile(proxy) ==
    CASE proxy = "chat" ->
            [race |-> COPILOT_TIMEOUT, global |-> MAX_EXECUTION_TIME,
             interval |-> POLLING_INTERVAL, polls |-> ChatPolls,
             conversation |-> ConversationTimeout, post |-> PostTimeout,
             poll |-> PollTimeout, pollCatch |-> TRUE,
             sender |-> "PowerBI_Fast_User",
             ok |-> "COPILOT", fallback |-> "FALLBACK"]
      [] proxy = "chat-jsonp" ->
            [race |-> JsonpRace, global |-> Off,
             interval |-> JsonpInterval, polls |-> JsonpPolls,
             conversation |-> Off, post |-> Off, poll |-> Off,
             pollCatch |-> FALSE, sender |-> "PowerBI_JSONP_User",
             ok |-> "JSONP_COPILOT", fallback |-> "JSONP_FALLBACK"]
      [] proxy = "chat-iframe" ->
            [race |-> IframeRace, global |-> Off,
             interval |-> IframeInterval, polls |-> IframePolls,
             conversation |-> Off, post |-> Off, poll |-> Off,
             pollCatch |-> FALSE, sender |-> "PowerBI_Iframe_User",
             ok |-> "IFRAME_COPILOT", fallback |-> "IFRAME_FALLBACK"]
      [] proxy = "chat-sse" ->
            [race |-> Off, global |-> Off,
             interval |-> SseInterval, polls |-> SsePolls,
             conversation |-> Off, post |-> Off, poll |-> Off,
             pollCatch |-> FALSE, sender |-> "PowerBI_SSE_User",
             ok |-> "SSE", fallback |-> "SSE_FALLBACK"]
      [] proxy = "chat-pixel" ->
            [race |-> Off, global |-> Off,
             interval |-> PixelInterval, polls |-> PixelPolls,
             conversation |-> Off, post |-> Off, poll |-> Off,
             pollCatch |-> FALSE, sender |-> "PowerBI_Pixel_User",
             ok |-> "PIXEL", fallback |-> "PIXEL_FALLBACK"]

(* The activities a poll can list: the sender's own message, bot messages  *)
(* and an activity that is not a message.                                   *)
Own(proxy) == [type |-> "message", from |-> Profile(proxy).sender, text |-> "q"]
Bot(text) == [type |-> "message", from |-> "bot", text |-> text]
Typing == [type |-> "typing", from |-> "bot", text |-> ""]

ActivityLists(proxy) ==
    { <<>>,
      << Own(proxy) >>,
      << Own(proxy), Typing >>,
      << Own(proxy), Bot("a") >>,
      << Bot("a"), Own(proxy), Bot("b") >> }

(* What an upstream call gives when it completes. *)
Threw == [threw |-> TRUE, ok |-> FALSE, activities |-> <<>>]
Status(ok) == [threw |-> FALSE, ok |-> ok, activities |-> <<>>]
Listed(as) == [threw |-> FALSE, ok |-> TRUE, activities |-> as]

Completions(proxy, pc) ==
    IF pc = "poll"
    THEN {Threw, Status(FALSE)} \cup {Listed(as) : as \in ActivityLists(proxy)}
    ELSE {Threw, Status(FALSE), Status(TRUE)}

(* Variant of the filter that keeps every message. *)
AllMessages(activities, sender) ==
    SelectSeq(activities, LAMBDA a : a.type = "message")

(* activities.filter(a => a.type === 'message' && a.from.id !== sender) *)
BotMessages(activities, sender) ==
    SelectSeq(activities, LAMBDA a : a.type = "message" /\ a.from # sender)

(* Variant of the choice that takes the first message. *)
FirstText(botMessages) == botMessages[1].text

(* botMessages[botMessages.length - 1].text *)
LastText(botMessages) == botMessages[Len(botMessages)].text

NoRun ==
    [proxy |-> "none", secret |-> FALSE, session |-> "", pc |-> "none",
     polls |-> 0, log |-> <<>>, awaited |-> FALSE, seen |-> <<>>,
     result |-> ""]

NoTimers ==
    [call |-> Off, fetch |-> Off, wait |-> Off, race |-> Off, global |-> Off]

NoResponse == [method |-> "", answer |-> "", at |-> Off]

(* The canned reply built by the callback of the outer timer of chat, and *)
(* the 1x1 image of chat-pixel.                                             *)
FastFallback == [method |-> "FAST_FALLBACK", answer |-> "canned"]
Pixel == [method |-> "image", answer |-> "", at |-> 0]

NotHandled ==
    [responded |-> FALSE, response |-> NoResponse, stores |-> <<>>,
     globalFired |-> FALSE, discarded |-> {}]

RunInit ==
    /\ run = NoRun
    /\ elapsed = 0
    /\ due = NoTimers
    /\ handled = NotHandled

(* fetch(url, {timeout}) is issued at time t: the call completes after     *)
(* `latency` or never, and the timeout option of node-fetch, where given,   *)
(* rejects it after `limit`.                                                *)
Fetch(d, t, latency, limit) ==
    [d EXCEPT !.call = IF latency = Off THEN Off ELSE t + latency,
              !.fetch = IF limit = Off THEN Off ELSE t + limit,
              !.wait = Off]

(* Variant of the continuation that stores under one fixed session id. *)
DeliverUnkeyed(h, proxy, session, ok, text) ==
    LET method == IF ok THEN Profile(proxy).ok ELSE Profile(proxy).fallback
        answer == IF ok /\ (proxy # "chat" \/ text # "") THEN text
                  ELSE "fallback"
    IN  IF proxy = "chat-pixel"
        THEN [h EXCEPT !.stores =
                 Append(@, [sessionId |-> "default",
                            method |-> method, answer |-> answer, at |-> elapsed])]
        ELSE [h EXCEPT !.responded = TRUE,
                       !.response = [method |-> method, answer |-> answer,
                                     at |-> elapsed]]

(* The handler's continuation after its await: the response, or for the    *)
(* image beacon the store write.  ok: the exchange returned `text`.        *)
Deliver(h, proxy, session, ok, text) ==
    LET method == IF ok THEN Profile(proxy).ok ELSE Profile(proxy).fallback
        answer == IF ok /\ (proxy # "chat" \/ text # "") THEN text
                  ELSE "fallback"
    IN  IF proxy = "chat-pixel"
        THEN [h EXCEPT !.stores =
                 Append(@, [sessionId |-> Or(session, "default"),
                            method |-> method, answer |-> answer, at |-> elapsed])]
        ELSE [h EXCEPT !.responded = TRUE,
                       !.response = [method |-> method, answer |-> answer,
                                     at |-> elapsed]]

(* The exchange function settles: it returned `text` (ok) or threw        *)
(* the error `text`.     The handler, when it still awaits it, goes on and  *)
(* (chat) clears the outer timer; the race timer is left to run out.  seen: *)
(* the activities listed by the latest poll.                                *)
ExchangeSettles(ok, text, seen) ==
    /\ run' = [run EXCEPT !.pc = IF ok THEN "returned" ELSE "threw",
                          !.awaited = FALSE, !.seen = seen,
                          !.result = text]
    /\ due' = [due EXCEPT !.call = Off, !.fetch = Off, !.wait = Off,
                          !.global = IF run.awaited THEN Off ELSE @]
    /\ handled' = IF run.awaited
                  THEN Deliver(handled, run.proxy, run.session, ok, text)
                  ELSE handled

(* The exchange function is entered at time `elapsed` with the credential      *)
(* present: the conversation request is issued.                             *)
EnterExchange(r, d, latency) ==
    /\ run' = [r EXCEPT !.pc = "conversation", !.log = <<"conversation">>]
    /\ due' = Fetch(d, elapsed, latency, Profile(r.proxy).conversation)

(* exports.handler is invoked.  chat, chat-jsonp and chat-iframe arm their *)
(* timers and await the exchange; chat-sse awaits it with no timer;         *)
(* chat-pixel schedules it with setImmediate and returns the image.         *)
Start ==
    /\ run.pc = "none"
    /\ \E proxy \in Proxies, secret \in BOOLEAN, session \in {"", "s1"},
          latency \in Latencies \cup {Off} :
          LET r == [NoRun EXCEPT !.proxy = proxy, !.secret = secret,
                                 !.session = session, !.awaited = TRUE]
              d == [NoTimers EXCEPT !.race = Profile(proxy).race,
                                    !.global = Profile(proxy).global]
          IN  IF proxy = "chat-pixel"
              THEN /\ run' = [r EXCEPT !.pc = "scheduled"]
                   /\ due' = d
                   /\ handled' = [handled EXCEPT !.responded = TRUE,
                                                 !.response = Pixel]
              ELSE IF ~SecretPresent(secret)
              THEN /\ run' = [r EXCEPT !.pc = "threw", !.awaited = FALSE]
                   /\ due' = [d EXCEPT !.global = Off]
                   /\ handled' = Deliver(handled, proxy, session, FALSE, "")
              ELSE /\ EnterExchange(r, d, latency)
                   /\ UNCHANGED handled
    /\ UNCHANGED <<elapsed, widgetVars, storeVars, proxyVars,
                   ruleVars, parseVars, frameVars, errorVars>>

(* The setImmediate callback of chat-pixel runs. *)
Background ==
    /\ run.pc = "scheduled"
    /\ \E latency \in Latencies \cup {Off} :
          IF ~SecretPresent(run.secret)
          THEN /\ run' = [run EXCEPT !.pc = "threw", !.awaited = FALSE]
               /\ handled' = Deliver(handled, run.proxy, run.session, FALSE, "")
               /\ UNCHANGED due
          ELSE /\ EnterExchange(run, due, latency)
               /\ UNCHANGED handled
    /\ UNCHANGED <<elapsed, widgetVars, storeVars, proxyVars,
                   ruleVars, parseVars, frameVars, errorVars>>

InCall == run.pc \in {"conversation", "post", "poll"}

(* After a poll that found no bot message: the next turn of the loop, or   *)
(* the polling-timeout error.                                               *)
NextPoll(seen) ==
    IF run.polls < Profile(run.proxy).polls
    THEN /\ run' = [run EXCEPT !.pc = "wait", !.seen = seen]
         /\ due' = [due EXCEPT !.call = Off, !.fetch = Off,
                               !.wait = elapsed + Profile(run.proxy).interval]
         /\ UNCHANGED handled
    ELSE ExchangeSettles(FALSE, "polling timeout", seen)

(* The body of the exchange function after the awaited call gave c. *)
Resume(c, latency) ==
    CASE run.pc = "conversation" ->
            IF c.threw THEN ExchangeSettles(FALSE, "fetch failed", <<>>)
            ELSE IF ~c.ok THEN ExchangeSettles(FALSE, "conversation", <<>>)
            ELSE /\ run' = [run EXCEPT !.pc = "post", !.log = Append(@, "post")]
                 /\ due' = Fetch(due, elapsed, latency, Profile(run.proxy).post)
                 /\ UNCHANGED handled
      [] run.pc = "post" ->
            IF c.threw THEN ExchangeSettles(FALSE, "fetch failed", <<>>)
            ELSE /\ run' = [run EXCEPT !.pc = "wait"]
                 /\ due' = [due EXCEPT !.call = Off, !.fetch = Off,
                                       !.wait = elapsed + Profile(run.proxy).interval]
                 /\ UNCHANGED handled
      [] run.pc = "poll" ->
            IF c.threw
            THEN IF Profile(run.proxy).pollCatch THEN NextPoll(<<>>)
                 ELSE ExchangeSettles(FALSE, "fetch failed", <<>>)
            ELSE LET botMessages ==
                        BotMessages(c.activities, Profile(run.proxy).sender)
                 IN  IF c.ok /\ Len(botMessages) > 0
                     THEN ExchangeSettles(TRUE, LastText(botMessages),
                                          c.activities)
                     ELSE NextPoll(c.activities)

(* The awaited upstream call completes. *)
CallCompletes ==
    /\ InCall
    /\ due.call # Off
    /\ due.call <= elapsed
    /\ \E c \in Completions(run.proxy, run.pc), latency \in Latencies \cup {Off} :
          Resume(c, latency)
    /\ UNCHANGED <<elapsed, widgetVars, storeVars, proxyVars,
                   ruleVars, parseVars, frameVars, errorVars>>

(* The timeout option of the awaited fetch rejects it. *)
FetchTimeout ==
    /\ InCall
    /\ due.fetch # Off
    /\ due.fetch <= elapsed
    /\ \E latency \in Latencies \cup {Off} : Resume(Threw, latency)
    /\ UNCHANGED <<elapsed, widgetVars, storeVars, proxyVars,
                   ruleVars, parseVars, frameVars, errorVars>>

(* The setTimeout of the polling loop fires: the next poll is issued. *)
PollTimer ==
    /\ run.pc = "wait"
    /\ due.wait <= elapsed
    /\ \E latency \in Latencies \cup {Off} :
          /\ run' = [run EXCEPT !.pc = "poll", !.polls = @ + 1,
                                !.log = Append(@, "poll")]
          /\ due' = Fetch(due, elapsed, latency, Profile(run.proxy).poll)
    /\ UNCHANGED <<handled, elapsed, widgetVars, storeVars, proxyVars,
                   ruleVars, parseVars, frameVars, errorVars>>

(* setTimeout(() => reject(new Error('Copilot timeout')), ...) fires; the  *)
(* exchange function goes on unawaited.                                     *)
CopilotTimeout ==
    /\ due.race # Off
    /\ due.race <= elapsed
    /\ run' = [run EXCEPT !.awaited = FALSE]
    /\ due' = [due EXCEPT !.race = Off,
                          !.global = IF run.awaited THEN Off ELSE @]
    /\ handled' = IF run.awaited
                  THEN Deliver(handled, run.proxy, run.session, FALSE, "")
                  ELSE handled
    /\ UNCHANGED <<elapsed, widgetVars, storeVars, proxyVars,
                   ruleVars, parseVars, frameVars, errorVars>>

(* The callback of globalTimeout runs: it returns the canned reply to the  *)
(* timer, which drops it.                                                   *)
GlobalTimeout ==
    /\ due.global # Off
    /\ due.global <= elapsed
    /\ due' = [due EXCEPT !.global = Off]
    /\ handled' = [handled EXCEPT !.globalFired = TRUE,
                                  !.discarded = @ \cup {FastFallback}]
    /\ UNCHANGED <<run, elapsed, widgetVars, storeVars, proxyVars,
                   ruleVars, parseVars, frameVars, errorVars>>

PendingTimes == {due[f] : f \in DOMAIN due} \ {Off}

(* Time passes, to a moment at which something is due. *)
Advance ==
    /\ \E t \in PendingTimes :
          /\ t > elapsed
          /\ elapsed' = t
    /\ UNCHANGED <<run, due, handled, widgetVars, storeVars, proxyVars,
                   ruleVars, parseVars, frameVars, errorVars>>

----------------------------------------------------------------------------
(* The rule-based generator of chat.js, generateIntelligentFallback, up to *)
(* the choice of responseType, on question texts given character by         *)
(* character.  A text is a sequence of characters; an accented letter is    *)
(* written as the letter followed by its accent ("e'" for e acute, "c,"    *)
(* for c cedilla).                                                          *)

Upper == <<"A", "B", "C", "D", "E", "F", "G", "H", "I", "J", "K", "L", "M",
           "N", "O", "P", "Q", "R", "S", "T", "U", "V", "W", "X", "Y", "Z",
           "A'", "E'", "I'", "O'", "U'", "C,">>
Lower == <<"a", "b", "c", "d", "e", "f", "g", "h", "i", "j", "k", "l", "m",
           "n", "o", "p", "q", "r", "s", "t", "u", "v", "w", "x", "y", "z",
           "a'", "e'", "i'", "o'", "u'", "c,">>

(* String.prototype.toLowerCase *)
toLowerCase(text) ==
    [i \in DOMAIN text |->
        IF \E k \in DOMAIN Upper : Upper[k] = text[i]
        THEN Lower[CHOOSE k \in DOMAIN Upper : Upper[k] = text[i]]
        ELSE text[i]]

(* String.prototype.includes *)
includes(text, term) ==
    \E i \in 1..(Len(text) - Len(term) + 1) :
        SubSeq(text, i, i + Len(term) - 1) = term

(* Variant of the table with the entries in alphabetical order. *)
questionTypesByName ==
    << [type |-> "averages",
         terms |-> <<
              <<"m", "e'", "d", "i", "a">>,
              <<"a", "v", "e", "r", "a", "g", "e">>,
              <<"m", "e", "a", "n">>,
              <<"m", "e'", "d", "i", "o">> >>],
       [type |-> "comparisons",
         terms |-> <<
              <<"c", "o", "m", "p", "a", "r", "a", "r">>,
              <<"v", "e", "r", "s", "u", "s">>,
              <<"v", "s">>,
              <<"d", "i", "f", "e", "r", "e", "n", "c,", "a">>,
              <<"m", "a", "i", "o", "r">>,
              <<"m", "e", "n", "o", "r">> >>],
       [type |-> "doctors",
         terms |-> <<
              <<"m", "e'", "d", "i", "c", "o">>,
              <<"d", "o", "c", "t", "o", "r">>,
              <<"d", "r", ".">>,
              <<"d", "r", "a", ".">>,
              <<"p", "r", "o", "f", "i", "s", "s", "i", "o", "n", "a", "l">> >>],
       [type |-> "quantities",
         terms |-> <<
              <<"q", "u", "a", "n", "t", "i", "d", "a", "d", "e">>,
              <<"q", "t", "d">>,
              <<"q", "u", "a", "n", "t", "o", "s">>,
              <<"c", "o", "u", "n", "t">>,
              <<"n", "u'", "m", "e", "r", "o">> >>],
       [type |-> "sales",
         terms |-> <<
              <<"v", "e", "n", "d", "a", "s">>,
              <<"r", "e", "c", "e", "i", "t", "a">>,
              <<"f", "a", "t", "u", "r", "a", "m", "e", "n", "t", "o">>,
              <<"r", "e", "v", "e", "n", "u", "e">>,
              <<"s", "a", "l", "e", "s">> >>],
       [type |-> "totals",
         terms |-> <<
              <<"t", "o", "t", "a", "l">>,
              <<"s", "o", "m", "a">>,
              <<"s", "u", "m">>,
              <<"s", "o", "m", "a", "r">>,
              <<"c", "a", "l", "c", "u", "l", "a", "r">> >>] >>

(* const questionTypes = {...}: Object.entries gives the entries in the    *)
(* order they are written.                                                  *)
questionTypes ==
    << [type |-> "totals",
         terms |-> <<
              <<"t", "o", "t", "a", "l">>,
              <<"s", "o", "m", "a">>,
              <<"s", "u", "m">>,
              <<"s", "o", "m", "a", "r">>,
              <<"c", "a", "l", "c", "u", "l", "a", "r">> >>],
       [type |-> "quantities",
         terms |-> <<
              <<"q", "u", "a", "n", "t", "i", "d", "a", "d", "e">>,
              <<"q", "t", "d">>,
              <<"q", "u", "a", "n", "t", "o", "s">>,
              <<"c", "o", "u", "n", "t">>,
              <<"n", "u'", "m", "e", "r", "o">> >>],
       [type |-> "sales",
         terms |-> <<
              <<"v", "e", "n", "d", "a", "s">>,
              <<"r", "e", "c", "e", "i", "t", "a">>,
              <<"f", "a", "t", "u", "r", "a", "m", "e", "n", "t", "o">>,
              <<"r", "e", "v", "e", "n", "u", "e">>,
              <<"s", "a", "l", "e", "s">> >>],
       [type |-> "doctors",
         terms |-> <<
              <<"m", "e'", "d", "i", "c", "o">>,
              <<"d", "o", "c", "t", "o", "r">>,
              <<"d", "r", ".">>,
              <<"d", "r", "a", ".">>,
              <<"p", "r", "o", "f", "i", "s", "s", "i", "o", "n", "a", "l">> >>],
       [type |-> "averages",
         terms |-> <<
              <<"m", "e'", "d", "i", "a">>,
              <<"a", "v", "e", "r", "a", "g", "e">>,
              <<"m", "e", "a", "n">>,
              <<"m", "e'", "d", "i", "o">> >>],
       [type |-> "comparisons",
         terms |-> <<
              <<"c", "o", "m", "p", "a", "r", "a", "r">>,
              <<"v", "e", "r", "s", "u", "s">>,
              <<"v", "s">>,
              <<"d", "i", "f", "e", "r", "e", "n", "c,", "a">>,
              <<"m", "a", "i", "o", "r">>,
              <<"m", "e", "n", "o", "r">> >>] >>

(* terms.some(term => q.includes(term)) *)
SomeTerm(q, terms) == \E k \in DOMAIN terms : includes(q, terms[k])

(* for (const [type, terms] of Object.entries(questionTypes)) {...; break} *)
(* from entry k on, with responseType 'general' when the loop runs out.     *)
RECURSIVE FirstMatch(_, _)
FirstMatch(q, k) ==
    IF k > Len(questionTypes) THEN "general"
    ELSE IF SomeTerm(q, questionTypes[k].terms) THEN questionTypes[k].type
    ELSE FirstMatch(q, k + 1)

(* const q = question.toLowerCase(); ...; the responseType after the loop. *)
ResponseType(question) == FirstMatch(toLowerCase(question), 1)

(* Bounds of the model: the pieces a question is put together from, and    *)
(* how many of them.                                                        *)
Pieces ==
    { <<"t", "o", "t", "a", "l">>,
      <<"T", "O", "T", "A", "L">>,
      <<"r", "e", "s", "u", "m", "o">>,
      <<"q", "u", "a", "n", "t", "o", "s">>,
      <<"v", "e", "n", "d", "a", "s">>,
      <<"m", "e'", "d", "i", "c", "o">>,
      <<"M", "E'", "D", "I", "C", "O">>,
      <<"m", "e'", "d", "i", "a">>,
      <<"m", "a", "i", "o", "r">>,
      <<"d", "r">>,
      <<".">>,
      <<" ", "d", "e", " ">>,
      <<"o", "l", "a">> }

MaxPieces == 2

RECURSIVE Text(_)
Text(pieces) == IF pieces = <<>> THEN <<>> ELSE Head(pieces) \o Text(Tail(pieces))

NotChosen == [question |-> <<>>, responseType |-> "none"]

RuleInit ==
    /\ typed = <<>>
    /\ chosen = NotChosen

(* The user goes on typing the question. *)
TypePiece ==
    /\ Len(typed) < MaxPieces
    /\ \E piece \in Pieces : typed' = Append(typed, piece)
    /\ UNCHANGED <<chosen, widgetVars, storeVars, proxyVars, runVars,
                   parseVars, frameVars, errorVars>>

(* generateIntelligentFallback(question, contextData) is called with the   *)
(* text typed so far.                                                       *)
GenerateFallback ==
    /\ typed # <<>>
    /\ chosen' = [question |-> Text(typed),
                  responseType |-> ResponseType(Text(typed))]
    /\ UNCHANGED <<typed, widgetVars, storeVars, proxyVars, runVars,
                   parseVars, frameVars, errorVars>>

----------------------------------------------------------------------------
(* The context parameter of chat.js (lines 54-69).  A JSON text is a        *)
(* sequence of tokens with their length in characters: the brackets and     *)
(* commas of the array and one token per row object.                        *)

ContextLimit == 2000

(* Bounds of the model: the lengths of a serialized row, and the number of *)
(* rows sent.                                                               *)
RowSizes == {2, 600, 998, 1500}
MaxRows == 3

Token(kind, chars, row) == [kind |-> kind, chars |-> chars, row |-> row]

(* JSON.stringify(rows) *)
RECURSIVE Stringify(_, _)
Stringify(rows, k) ==
    IF k > Len(rows) THEN <<Token("]", 1, 0)>>
    ELSE (IF k = 1 THEN <<>> ELSE <<Token(",", 1, 0)>>)
         \o <<Token("row", rows[k].chars, k)>> \o Stringify(rows, k + 1)

JsonText(rows) == <<Token("[", 1, 0)>> \o Stringify(rows, 1)

RECURSIVE Chars(_)
Chars(text) == IF text = <<>> THEN 0 ELSE Head(text).chars + Chars(Tail(text))

(* String.prototype.substring(0, limit): a token the limit falls in is     *)
(* kept in part.                                                            *)
RECURSIVE Cut(_, _)
Cut(text, limit) ==
    IF text = <<>> \/ limit <= 0 THEN <<>>
    ELSE IF Head(text).chars <= limit
    THEN <<Head(text)>> \o Cut(Tail(text), limit - Head(text).chars)
    ELSE IF Head(text).kind = "row"
    THEN <<Token("part", limit, Head(text).row)>>
    ELSE <<>>

(* JSON.parse accepts the text of an array: [ row , row ... ] *)
WellFormed(text) ==
    /\ Len(text) >= 2
    /\ text[1].kind = "["
    /\ text[Len(text)].kind = "]"
    /\ \A i \in 2..(Len(text) - 1) :
          text[i].kind = IF i % 2 = 0 THEN "row" ELSE ","
    /\ Len(text) > 2 => text[Len(text) - 1].kind = "row"

(* contextData = {} *)
EmptyObject == [isArray |-> FALSE, rows |-> <<>>]

(* try { contextData = JSON.parse(rawContext.substring(0, 2000)) }         *)
(* catch (e) { contextData = {} }                                           *)
ParseContext(rawContext) ==
    LET text == Cut(rawContext, ContextLimit)
    IN  IF WellFormed(text)
        THEN [isArray |-> TRUE,
              rows |-> LET kept == SelectSeq(text, LAMBDA t : t.kind = "row")
                       IN  [k \in DOMAIN kept |-> kept[k].row]]
        ELSE EmptyObject

NotParsed == [isArray |-> FALSE, rows |-> <<0>>]

ParseInit ==
    /\ sentRows = <<>>
    /\ contextData = NotParsed

(* The caller adds a row to the context of its next request. *)
AddRow ==
    /\ Len(sentRows) < MaxRows
    /\ \E size \in RowSizes : sentRows' = Append(sentRows, [chars |-> size])
    /\ contextData' = NotParsed
    /\ UNCHANGED <<widgetVars, storeVars, proxyVars, runVars, ruleVars,
                   frameVars, errorVars>>

(* The handler of chat.js receives the context and parses it. *)
ReceiveContext ==
    /\ contextData' = ParseContext(JsonText(sentRows))
    /\ UNCHANGED <<sentRows, widgetVars, storeVars, proxyVars, runVars,
                   ruleVars, frameVars, errorVars>>

----------------------------------------------------------------------------
(* The hidden-frame adapter and the origin of the messages it hears       *)
(* (visual.ts, sendViaIframe).  A URL is a sequence of parts: the scheme    *)
(* and the labels of the host.                                              *)

Backend == <<"https://", "copilotassistbi", ".netlify.app">>

(* this.baseUrl: '' until the first update, then the configured URL. *)
NoUrl == <<>>

(* The origins a message event can carry: the backend's, the backend's     *)
(* host over http, a host that continues the backend's name, and another.   *)
Origins ==
    { Backend,
      <<"http://", "copilotassistbi", ".netlify.app">>,
      <<"https://", "copilotassistbi", ".netlify.app", ".example.com">>,
      <<"https://", "example.com">> }

(* Bound of the model: the message events delivered to the window. *)
MaxEvents == 2

(* String.prototype.replace('https://', ''): the first occurrence. *)
RECURSIVE Replace(_, _)
Replace(url, part) ==
    IF url = <<>> THEN <<>>
    ELSE IF Head(url) = part THEN Tail(url)
    ELSE <<Head(url)>> \o Replace(Tail(url), part)

(* event.origin.includes(this.baseUrl.replace('https://', '')) *)
OriginAccepted(origin, url) == includes(origin, Replace(url, "https://"))

(* messageHandler(event) *)
messageHandler(i, event, url) ==
    IF ~OriginAccepted(event.origin, url)
    THEN [inst |-> i, result |-> None]
    ELSE IframeOnMessage(i, event.data)

NoEvent == [n |-> 0, origin |-> <<>>, data |-> Null]

Pending == [kind |-> "none", value |-> "", on |-> ""]

FrameInit ==
    /\ baseUrl = NoUrl
    /\ frame = NoInst
    /\ promise = Pending
    /\ heard = NoEvent

(* update(options) sets this.baseUrl from the settings. *)
Configure ==
    /\ baseUrl' = Backend
    /\ baseUrl # Backend
    /\ UNCHANGED <<frame, promise, heard, widgetVars, storeVars, proxyVars,
                   runVars, ruleVars, parseVars,
                   errorVars>>

(* sendViaIframe(question, context) is called. *)
FrameInvoke ==
    /\ frame = NoInst
    /\ frame' = sendViaIframe
    /\ UNCHANGED <<baseUrl, promise, heard, widgetVars, storeVars, proxyVars,
                   runVars, ruleVars, parseVars,
                   errorVars>>

(* The promise of the invocation takes the first result it is given. *)
Settled(result, on) ==
    IF promise.kind = "none" /\ result.kind # "none"
    THEN [kind |-> result.kind, value |-> result.value, on |-> on]
    ELSE promise

(* A message event reaches the window while the listener is attached. *)
FrameMessage ==
    /\ "listener" \in frame.res
    /\ heard.n < MaxEvents
    /\ \E origin \in Origins, data \in Data :
          LET event == [n |-> heard.n + 1, origin |-> origin, data |-> data]
              out == messageHandler(frame, event, baseUrl)
          IN  /\ heard' = event
              /\ frame' = out.inst
              /\ promise' = Settled(out.result, "message")
    /\ UNCHANGED <<baseUrl, widgetVars, storeVars, proxyVars, runVars,
                   ruleVars, parseVars, errorVars>>

(* The 15 s timer of the invocation fires. *)
FrameTimeout ==
    /\ "timer" \in frame.res
    /\ frame.timer = 0
    /\ LET out == IframeOnTimeout(frame)
       IN  /\ frame' = out.inst
           /\ promise' = Settled(out.result, "timeout")
    /\ UNCHANGED <<baseUrl, heard, widgetVars, storeVars, proxyVars, runVars,
                   ruleVars, parseVars, errorVars>>

(* iframe.onerror *)
FrameError ==
    /\ "frame" \in frame.res
    /\ LET out == IframeOnError(frame)
       IN  /\ frame' = out.inst
           /\ promise' = Settled(out.result, "error")
    /\ UNCHANGED <<baseUrl, heard, widgetVars, storeVars, proxyVars, runVars,
                   ruleVars, parseVars, errorVars>>

(* One second passes. *)
FrameTick ==
    /\ frame.timer > 0
    /\ frame' = [frame EXCEPT !.timer = @ - 1]
    /\ UNCHANGED <<baseUrl, promise, heard, widgetVars, storeVars, proxyVars,
                   runVars, ruleVars, parseVars,
                   errorVars>>

----------------------------------------------------------------------------
(* AdvancedErrorHandler (errorHandler.ts): analyzeError, logError and      *)
(* clearDebugHistory.  A message is a sequence of characters.  An entry of  *)
(* the history is written as its arrival number; the details analyzeError   *)
(* gives it are in errorDetails.                                            *)

HistoryLimit == 50

isCorsError(message) ==
    \/ includes(message, <<"c", "o", "r", "s">>)
    \/ includes(message, <<"c", "r", "o", "s", "s", "-", "o", "r", "i", "g", "i", "n">>)
    \/ includes(message, <<"a", "c", "c", "e", "s", "s", "-", "c", "o", "n", "t", "r",
                "o", "l", "-", "a", "l", "l", "o", "w", "-", "o", "r",
                "i", "g", "i", "n">>)

isCspError(message) ==
    \/ includes(message, <<"c", "o", "n", "t", "e", "n", "t", " ", "s", "e", "c", "u",
                "r", "i", "t", "y", " ", "p", "o", "l", "i", "c", "y">>)
    \/ includes(message, <<"u", "n", "s", "a", "f", "e", "-", "i", "n", "l", "i", "n",
                "e">>)
    \/ includes(message, <<"u", "n", "s", "a", "f", "e", "-", "e", "v", "a", "l">>)
    \/ includes(message, <<"v", "i", "o", "l", "a", "t", "e", "s", " ", "t", "h", "e",
                " ", "f", "o", "l", "l", "o", "w", "i", "n", "g", " ",
                "c", "o", "n", "t", "e", "n", "t", " ", "s", "e", "c",
                "u", "r", "i", "t", "y", " ", "p", "o", "l", "i", "c",
                "y">>)

isNetworkError(message) ==
    \/ includes(message, <<"n", "e", "t", "w", "o", "r", "k">>)
    \/ includes(message, <<"f", "e", "t", "c", "h">>)
    \/ includes(message, <<"c", "o", "n", "n", "e", "c", "t", "i", "o", "n">>)
    \/ includes(message, <<"o", "f", "f", "l", "i", "n", "e">>)

isTimeoutError(message) ==
    \/ includes(message, <<"t", "i", "m", "e", "o", "u", "t">>)
    \/ includes(message, <<"t", "i", "m", "e", "d", " ", "o", "u", "t">>)
    \/ includes(message, <<"r", "e", "q", "u", "e", "s", "t", " ", "t", "i", "m", "e",
                "o", "u", "t">>)

isAuthError(message) ==
    \/ includes(message, <<"u", "n", "a", "u", "t", "h", "o", "r", "i", "z", "e", "d">>)
    \/ includes(message, <<"4", "0", "3">>)
    \/ includes(message, <<"4", "0", "1">>)
    \/ includes(message, <<"a", "u", "t", "h", "e", "n", "t", "i", "c", "a", "t", "i",
                "o", "n">>)

isDataError(message) ==
    \/ includes(message, <<"j", "s", "o", "n">>)
    \/ includes(message, <<"p", "a", "r", "s", "e">>)
    \/ includes(message, <<"d", "a", "t", "a">>)
    \/ includes(message, <<"u", "n", "d", "e", "f", "i", "n", "e", "d">>)

(* Variant of analyzeError that tests for a timeout before the network. *)
analyzeErrorTimeoutFirst(error) ==
    LET errorMessage == toLowerCase(error)
    IN  IF isCorsError(errorMessage) THEN "CORS_BLOCKED"
        ELSE IF isCspError(errorMessage) THEN "CSP_VIOLATION"
        ELSE IF isTimeoutError(errorMessage) THEN "TIMEOUT_ERROR"
        ELSE IF isNetworkError(errorMessage) THEN "NETWORK_ERROR"
        ELSE IF isAuthError(errorMessage) THEN "AUTH_ERROR"
        ELSE IF isDataError(errorMessage) THEN "DATA_ERROR"
        ELSE "UNKNOWN_ERROR"

(* analyzeError(error): the code of the ErrorDetails it builds *)
analyzeError(error) ==
    LET errorMessage == toLowerCase(error)
    IN  IF isCorsError(errorMessage) THEN "CORS_BLOCKED"
        ELSE IF isCspError(errorMessage) THEN "CSP_VIOLATION"
        ELSE IF isNetworkError(errorMessage) THEN "NETWORK_ERROR"
        ELSE IF isTimeoutError(errorMessage) THEN "TIMEOUT_ERROR"
        ELSE IF isAuthError(errorMessage) THEN "AUTH_ERROR"
        ELSE IF isDataError(errorMessage) THEN "DATA_ERROR"
        ELSE "UNKNOWN_ERROR"

(* Array.prototype.slice(-n) *)
SliceLast(history, n) ==
    IF Len(history) <= n THEN history
    ELSE SubSeq(history, Len(history) - n + 1, Len(history))

(* Variant of logError that keeps the oldest entries. *)
logErrorKeepsOldest(history, entry) ==
    LET pushed == Append(history, entry)
    IN  IF Len(pushed) > HistoryLimit THEN SubSeq(pushed, 1, HistoryLimit)
        ELSE pushed

(* logError(error): push, then slice(-50) when the history is over 50 *)
logError(history, entry) ==
    LET pushed == Append(history, entry)
    IN  IF Len(pushed) > HistoryLimit THEN SliceLast(pushed, HistoryLimit)
        ELSE pushed

(* Bounds of the model: the messages of the errors, and how many errors    *)
(* are logged.                                                              *)
ErrorMessages ==
    { <<"F", "a", "i", "l", "e", "d", " ", "t", "o", " ", "f", "e",
                "t", "c", "h">>,
      <<"f", "e", "t", "c", "h", " ", "t", "i", "m", "e", "o", "u",
                "t">>,
      <<"T", "i", "m", "e", "o", "u", "t", " ", "g", "e", "r", "a",
                "l">>,
      <<"J", "S", "O", "N", "P", " ", "t", "i", "m", "e", "o", "u",
                "t">>,
      <<"C", "O", "R", "S", " ", "r", "e", "q", "u", "e", "s", "t",
                " ", "t", "i", "m", "e", "d", " ", "o", "u", "t">>,
      <<"b", "l", "o", "c", "k", "e", "d", ":", " ", "u", "n", "s",
                "a", "f", "e", "-", "e", "v", "a", "l", " ", "i", "n",
                " ", "f", "e", "t", "c", "h">>,
      <<"4", "0", "1", " ", "U", "n", "a", "u", "t", "h", "o", "r",
                "i", "z", "e", "d">>,
      <<"U", "n", "e", "x", "p", "e", "c", "t", "e", "d", " ", "t",
                "o", "k", "e", "n", " ", "i", "n", " ", "J", "S", "O",
                "N">>,
      <<"p", "a", "r", "s", "e", " ", "t", "i", "m", "e", "o", "u",
                "t">>,
      <<"O", "f", "f", "l", "i", "n", "e", " ", "d", "a", "t", "a">>,
      <<"P", "i", "x", "e", "l">>,
      <<"E", "r", "r", "o", " ", "S", "S", "E">>,
      <<"A", "u", "t", "h", "e", "n", "t", "i", "c", "a", "t", "i",
                "o", "n", " ", "d", "a", "t", "a">>,
      <<"x", " ", "i", "s", " ", "u", "n", "d", "e", "f", "i", "n",
                "e", "d">> }

MaxErrors == 52

NoDetails == [code |-> "none", message |-> <<>>]

ErrorInit ==
    /\ errorHistory = <<>>
    /\ errorDetails = NoDetails
    /\ logged = 0
    /\ arrived = 0

(* analyzeError(error, context) is called: by the widget, or by the        *)
(* window's error and unhandledrejection listeners.                         *)
AnalyzeError ==
    /\ arrived < MaxErrors
    /\ \E message \in ErrorMessages :
          errorDetails' = [code |-> analyzeError(message), message |-> message]
    /\ errorHistory' = logError(errorHistory, arrived + 1)
    /\ logged' = logged + 1
    /\ arrived' = arrived + 1
    /\ UNCHANGED <<widgetVars, storeVars, proxyVars, runVars, ruleVars,
                   parseVars, frameVars>>

(* clearDebugHistory() *)
ClearDebugHistory ==
    /\ errorHistory' = <<>>
    /\ logged' = 0
    /\ UNCHANGED <<errorDetails, arrived, widgetVars, storeVars, proxyVars,
                   runVars, ruleVars, parseVars, frameVars>>

Init ==
    /\ ErrorInit
    /\ FrameInit
    /\ WidgetInit
    /\ StoreInit
    /\ ProxyInit
    /\ RunInit
    /\ RuleInit
    /\ ParseInit

Next ==
    \/ Submit
    \/ RaceFire
    \/ ReenableFire
    \/ JSONPTimeout
    \/ JSONPCallback
    \/ JSONPError
    \/ IframeTimeout
    \/ IframeMessage
    \/ IframeError
    \/ SSETimeout
    \/ SSEMessage
    \/ SSEError
    \/ PixelPoll
    \/ PixelResponse
    \/ Tick

Spec == Init /\ [][Next]_vars

HostNext ==
    \/ Refresh
    \/ Submit
    \/ RaceFire
    \/ ReenableFire
    \/ JSONPTimeout
    \/ JSONPCallback
    \/ JSONPError
    \/ IframeTimeout
    \/ IframeMessage
    \/ IframeError
    \/ SSETimeout
    \/ SSEMessage
    \/ SSEError
    \/ PixelPoll
    \/ PixelResponse
    \/ Tick

HostSpec == Init /\ [][HostNext]_vars

(* The widget with the browser's guarantee that a timer that is due fires *)
(* and that time passes; the store answers a poll it has received.  No      *)
(* answer of the network to an adapter's request is promised.               *)
LiveSpec ==
    /\ Init
    /\ [][HostNext]_vars
    /\ WF_vars(Tick)
    /\ WF_vars(RaceFire)
    /\ WF_vars(ReenableFire)
    /\ WF_vars(JSONPTimeout)
    /\ WF_vars(IframeTimeout)
    /\ WF_vars(SSETimeout)
    /\ WF_vars(PixelPoll)
    /\ WF_vars(PixelResponse)

(* The widget alone under the same guarantees. *)
TimedSpec ==
    /\ Init
    /\ [][Next]_vars
    /\ WF_vars(Tick)
    /\ WF_vars(RaceFire)
    /\ WF_vars(ReenableFire)
    /\ WF_vars(JSONPTimeout)
    /\ WF_vars(IframeTimeout)
    /\ WF_vars(SSETimeout)
    /\ WF_vars(PixelPoll)
    /\ WF_vars(PixelResponse)

StoreNext ==
    \/ StorePost
    \/ StoreGet
    \/ StoreOther
    \/ CleanupFire
    \/ StoreTick

StoreSpec == Init /\ [][StoreNext]_vars

ProxyNext ==
    \/ update
    \/ Chat
    \/ ChatJsonp
    \/ ChatIframe
    \/ ChatSse
    \/ ChatPixel
    \/ Repeat
    \/ Finish
    \/ ProxyTick

ProxySpec == Init /\ [][ProxyNext]_vars

RunNext ==
    \/ Start
    \/ Background
    \/ CallCompletes
    \/ FetchTimeout
    \/ PollTimer
    \/ CopilotTimeout
    \/ GlobalTimeout
    \/ Advance

RunSpec == Init /\ [][RunNext]_vars

RuleNext ==
    \/ TypePiece
    \/ GenerateFallback

RuleSpec == Init /\ [][RuleNext]_vars

ParseNext ==
    \/ AddRow
    \/ ReceiveContext

ParseSpec == Init /\ [][ParseNext]_vars

FrameNext ==
    \/ Configure
    \/ FrameInvoke
    \/ FrameMessage
    \/ FrameTimeout
    \/ FrameError
    \/ FrameTick

FrameSpec == Init /\ [][FrameNext]_vars

ErrorNext ==
    \/ AnalyzeError
    \/ ClearDebugHistory

ErrorSpec == Init /\ [][ErrorNext]_vars

----------------------------------------------------------------------------
(* Properties of the fallback controller (Spec).                           *)

Ascending(s) ==
    \A a, b \in DOMAIN s : a < b => Priority(s[a]) < Priority(s[b])

(* C1: a call either resolves with a non-empty string or rejects; the      *)
(* adapters it invokes are invoked in strictly ascending priority order,    *)
(* hence each at most once, and when it rejects it has invoked every        *)
(* adapter that was enabled when the call started.                          *)
C1_ResolvesOrExhausts ==
    /\ outcome.kind \in {"none", "resolved", "rejected"}
    /\ outcome.kind = "resolved" => outcome.value # ""
    /\ Ascending(attempted)
    /\ outcome.kind = "rejected" => Range(attempted) = enabledAtStart

C1_Witness ==
    /\ outcome.kind = "rejected"
    /\ attempted = <<"JSONP", "Iframe", "SSE", "Pixel">>

(* C2: when an awaited adapter resolves, the call ends at once with that    *)
(* adapter's answer and lastUsedMethod names it: the winner is the last     *)
(* adapter invoked, and no question goes on after an adapter has resolved.  *)
C2_SuccessReturns ==
    /\ loading => wins = {}
    /\ outcome.kind = "resolved" =>
          /\ ~loading
          /\ attempted # <<>>
          /\ outcome.by = attempted[Len(attempted)]
          /\ lastUsedMethod = outcome.by
          /\ wins = {<<outcome.by, outcome.value>>}

C2_Witness ==
    /\ outcome.kind = "resolved"
    /\ Len(attempted) >= 2
    /\ Len(attempted) < Cardinality(enabledAtStart)

C4_CooldownExact ==
    [][(~loading /\ asked' = asked + 1) =>
          \A n \in Names :
              (n \in Range(Snapshot(enabled))) <=> (sinceFail[n] >= 30)]_vars

C4_Witness ==
    /\ asked = 2
    /\ loading
    /\ attempted = <<"JSONP">>
    /\ ~enabled["Iframe"]

(* C5: at most one adapter invocation holds a timer, a poll or a network    *)
(* operation at any time, abandoned invocations included.                   *)
C5_OneInFlight == Cardinality(Insts) <= 1

(* C6: every adapter invoked for a question was enabled when the question   *)
(* started.                                                                 *)
C6_DisabledSkipped == Range(attempted) \subseteq enabledAtStart

C6_Witness ==
    /\ outcome.kind = "rejected"
    /\ attempted # <<>>
    /\ "JSONP" \notin enabledAtStart
    /\ enabled["JSONP"]

(* C7: a call that rejects after at least one attempt embeds the message    *)
(* of the failure of the last adapter attempted.                            *)
C7_LastErrorEmbedded ==
    (outcome.kind = "rejected" /\ attempted # <<>>) => outcome.value = lastFail

C7_Witness ==
    /\ outcome.kind = "rejected"
    /\ Len(attempted) = 4
    /\ outcome.value = "Erro pixel"

(* C8: an adapter has a pending re-enable timer exactly while it is         *)
(* disabled, never more than one, and is enabled only when 30 s have passed *)
(* since its most recent failure.                                           *)
C8_OneReenableTimer ==
    \A n \in Names :
        /\ Len(reenable[n]) <= 1
        /\ enabled[n] <=> Len(reenable[n]) = 0
        /\ enabled[n] => sinceFail[n] >= 30

C8_Witness ==
    /\ asked = 2
    /\ loading
    /\ Len(attempted) >= 2
    /\ attempted[1] = "JSONP"
    /\ "Iframe" \notin enabledAtStart
    /\ Len(reenable["JSONP"]) = 1

(* C9: when an adapter's promise resolves or rejects, the adapter holds     *)
(* nothing any more: no timer, listener, callback, script, frame, stream,   *)
(* poll or fetch.                                                           *)
C9_NothingLeftBehind == leaked = {}

C9_Witness ==
    /\ outcome.kind = "resolved"
    /\ attempted = <<"JSONP", "Iframe", "SSE", "Pixel">>
    /\ abandoned = {}

----------------------------------------------------------------------------
(* Properties of the result store (StoreSpec).                             *)

FetchedAfter(sid, op) ==
    /\ request = [kind |-> "get", sid |-> sid]
    /\ Len(trail[sid]) = 2
    /\ trail[sid][1] = op
    /\ trail[sid][2] \in {"hit", "miss"}

NotFoundBody(sid) == [found |-> FALSE, sessionId |-> sid, waiting |-> TRUE]

(* C10, as stated: the GET that follows a store of X returns                *)
(* {found: true, data: X}, and the GET that follows it returns found:false. *)
C10_Original ==
    \A sid \in Sessions :
        /\ FetchedAfter(sid, "store") =>
              reply.body = [found |-> TRUE, data |-> lastStored[sid].data]
        /\ FetchedAfter(sid, "hit") => reply.body = NotFoundBody(sid)

(* C10, amended: the GET that follows a store of X returns found:true with  *)
(* data equal to X extended by a storedAt field holding the time of the     *)
(* store; the GET that follows it returns                                   *)
(* {found: false, sessionId, waiting: true}.                                *)
C10_StampedOnce ==
    \A sid \in Sessions :
        /\ FetchedAfter(sid, "store") =>
              /\ reply.statusCode = 200
              /\ DOMAIN reply.body = {"found", "data"}
              /\ reply.body.found = TRUE
              /\ DOMAIN reply.body.data =
                    DOMAIN lastStored[sid].data \cup {"storedAt"}
              /\ \A f \in DOMAIN lastStored[sid].data :
                    reply.body.data[f] = lastStored[sid].data[f]
              /\ reply.body.data.storedAt = lastStored[sid].at
        /\ FetchedAfter(sid, "hit") =>
              /\ reply.statusCode = 200
              /\ reply.body = NotFoundBody(sid)

C10_Witness ==
    /\ FetchedAfter("s1", "hit")
    /\ trail["s1"][2] = "miss"
    /\ lastStored["s1"].data.answer = "a2"

(* C11: an entry never stays in the map more than 5 minutes after the       *)
(* store that wrote it: its own cleanup timer is pending while it is there, *)
(* and once 5 minutes have passed since the last store under a session id   *)
(* and the timers due have run, a GET for that id is answered found:false.  *)
GetNow(sid) ==
    handler(responses, [httpMethod |-> "GET", sessionId |-> sid], storeNow)

CleanupDue == \E k \in DOMAIN cleanups : cleanups[k].left = 0

C11_ExpiresAfterFiveMinutes ==
    \A sid \in Sessions :
        /\ sid \in DOMAIN responses =>
              /\ storeNow - responses[sid].storedAt <= 5
              /\ \E k \in DOMAIN cleanups :
                    /\ cleanups[k].sid = sid
                    /\ cleanups[k].left = 5 - (storeNow - responses[sid].storedAt)
        /\ (lastStored[sid] # NoStore /\ storeNow - lastStored[sid].at >= 5
            /\ ~CleanupDue) =>
              /\ sid \notin DOMAIN responses
              /\ GetNow(sid).body = NotFoundBody(sid)

C11_Witness ==
    /\ trail["s1"] = <<"cleanup", "miss">>
    /\ took["s1"] = <<"cleanup">>
    /\ storeNow - lastStored["s1"].at >= 5
    /\ request = [kind |-> "get", sid |-> "s1"]
    /\ reply.body = NotFoundBody("s1")

(* C12: an entry is taken out of the map at most once, by one fetch or by   *)
(* a cleanup timer, never by two fetches nor by a fetch and a timer; while  *)
(* it is in the map nothing has taken it.                                   *)
C12_DeliveredAtMostOnce ==
    \A sid \in Sessions :
        /\ Len(took[sid]) <= 1
        /\ sid \in DOMAIN responses => took[sid] = <<>>

C12_Witness ==
    /\ took["s1"] = <<"fetch">>
    /\ trail["s1"] = <<"miss", "cleanup">>
    /\ stores = 2

----------------------------------------------------------------------------
(* Claims on the backend proxies and the data context extractor. *)

Exchanged == exchange # NoExchange

(* C13: every proxy handler responds with status 200 and, where the        *)
(* response carries the answer (chat, chat-jsonp, chat-iframe, chat-sse),   *)
(* a non-empty answer, whatever the conversational backend does.  The       *)
(* statement does not hold: a bot message with an empty or missing text is  *)
(* passed on as the answer by chat-jsonp, chat-iframe and chat-sse.         *)
C13_AlwaysAnswers ==
    Exchanged =>
        /\ exchange.response.statusCode = 200
        /\ exchange.response.via # "store"
              => ~EmptyAnswer(exchange.response.payload.answer)

FallbackMethods ==
    {"FALLBACK", "JSONP_FALLBACK", "IFRAME_FALLBACK", "SSE_FALLBACK",
     "PIXEL_FALLBACK"}

StraightToFallback(x) ==
    /\ x.response.calls = 0
    /\ x.response.forwarded = {}
    /\ x.response.payload.method \in FallbackMethods
    /\ x.response.payload.answer.text = "fallback"

Transports == {"chat-jsonp", "chat-iframe", "chat-sse", "chat-pixel"}

(* C15: on the rule-based fallback path the answer of every transport's    *)
(* proxy prints the row count of the data context the widget sent, for a   *)
(* view with rows.  The statement does not hold: chat-sse and chat-pixel    *)
(* print the length of the sample, 10 for a view of 12 rows.                *)
C15_PrintsRowCount ==
    (/\ Exchanged
     /\ exchange.proxy \in Transports
     /\ exchange.response.payload.method \in FallbackMethods
     /\ dataContext.hasData
     /\ dataContext.rowCount >= 1)
        => dataContext.rowCount \in exchange.response.payload.answer.shown

(* C16: when a proxy substitutes the rule-based answer for a failed        *)
(* exchange, the matching transport adapter resolves with the payload.      *)
(* The statement does not hold: the fallback payloads of chat-sse and       *)
(* chat-pixel carry the error message, and the adapter rejects them.        *)
C16_AdapterResolves ==
    (/\ Exchanged
     /\ exchange.proxy \in Transports
     /\ exchange.response.payload.method \in FallbackMethods)
        => OnPayload(exchange.response.payload) = "resolve"

(* C17: the chat proxy forwards a question longer than 500 characters      *)
(* shortened to 500, and its rule-based answer, when that path is taken, is *)
(* the one for the original full question.  The second half does not hold:  *)
(* the generator is given the shortened question.                           *)
C17_FallbackSeesFullQuestion ==
    (/\ Exchanged
     /\ exchange.proxy = "chat"
     /\ exchange.question.pad + exchange.question.kept > QuestionLimit)
        => /\ exchange.response.forwarded
                \subseteq {Substring(exchange.question, QuestionLimit)}
           /\ exchange.response.payload.answer.text = "fallback"
                => exchange.response.payload.answer
                     = generateIntelligentFallback(
                           exchange.question,
                           Params(exchange.question, dataContext).context)

RuleBased(x) == x # NoExchange /\ x.response.payload.answer.text = "fallback"

AllColumns == dataView.categories \o dataView.values

HasColumns == dataView.defined /\ dataView.categorical /\ Len(AllColumns) >= 1

(* C19: for a host view with at least one column, processDataView gives    *)
(* hasData = TRUE, rowCount the number of values of the first column, a     *)
(* sample of min(rowCount, 10) rows in which row i holds, under each        *)
(* column's display name, value i of a column of that name, and the         *)
(* columns by name and type in source order, the categories first and the   *)
(* measures after them.                                                     *)
C19_ContextOfView ==
    HasColumns =>
        /\ dataContext.hasData
        /\ dataContext.rowCount = Len(AllColumns[1].values)
        /\ Len(dataContext.sampleData) = Min(dataContext.rowCount, 10)
        /\ \A i \in DOMAIN dataContext.sampleData :
              /\ DOMAIN dataContext.sampleData[i]
                    = {AllColumns[k].displayName : k \in DOMAIN AllColumns}
              /\ \A n \in DOMAIN dataContext.sampleData[i] :
                    \E k \in DOMAIN AllColumns :
                        /\ AllColumns[k].displayName = n
                        /\ dataContext.sampleData[i][n]
                              = ValueAt(AllColumns[k], i)
        /\ Len(dataContext.columns) = Len(AllColumns)
        /\ \A k \in DOMAIN AllColumns :
              /\ dataContext.columns[k].name = AllColumns[k].displayName
              /\ dataContext.columns[k].type = "medida"
                    <=> AllColumns[k].isMeasure

(* Three columns of twelve rows. *)
C19_Witness ==
    /\ HasColumns
    /\ Len(dataView.categories) = 2
    /\ Len(dataView.values) = 1
    /\ \A k \in DOMAIN AllColumns : Len(AllColumns[k].values) = 12
    /\ dataContext.rowCount = 12
    /\ Len(dataContext.sampleData) = 10
    /\ Cardinality(DOMAIN dataContext.sampleData[1]) = 3

NoColumns == ~dataView.categorical \/ Len(AllColumns) = 0

(* C20: for a view without a categorical section, or with no category and  *)
(* no value column, and for a missing view, processDataView gives           *)
(* hasData = FALSE, rowCount = 0, no columns and no sample rows.            *)
C20_EmptyViewEmptyContext ==
    /\ (dataView.defined /\ NoColumns) =>
          /\ ~dataContext.hasData
          /\ dataContext.rowCount = 0
          /\ dataContext.columns = <<>>
          /\ dataContext.sampleData = <<>>
    /\ LET context == processDataView(MissingView) IN
          /\ ~context.hasData
          /\ context.rowCount = 0
          /\ context.columns = <<>>
          /\ context.sampleData = <<>>

(* The view with a categorical section and no column has been processed,   *)
(* and its context has been sent to a proxy.                                *)
C20_Witness ==
    /\ dataView.defined
    /\ dataView.categorical
    /\ Len(AllColumns) = 0
    /\ ~dataContext.hasData
    /\ Exchanged
    /\ exchange.response.payload.answer.shown = {}

----------------------------------------------------------------------------
(* Claims on one proxy invocation in time. *)

(* C21: in the chat proxy, when the outer timer of 8.5 s fires before the  *)
(* handler has produced its response, the response of the invocation is    *)
(* the canned FAST_FALLBACK reply.  The statement does not hold: the reply  *)
(* is returned to the timer and dropped, and the handler's own response     *)
(* follows.                                                                 *)
C21_CannedReply ==
    (run.proxy = "chat" /\ handled.globalFired /\ handled.responded)
        => handled.response.method = "FAST_FALLBACK"


(* The invocation has produced what it is for: its response, or for the    *)
(* image beacon its store write.                                            *)
Produced ==
    IF run.proxy = "chat-pixel" THEN handled.stores # <<>>
    ELSE handled.responded

(* C22: every step of the exchange is bounded by a timeout of its own, so  *)
(* an invocation that has not yet produced its response (image beacon: its  *)
(* store write) always has something ahead of it: a call that will complete *)
(* or a timer that will fire.                                               *)
C22_StepsBounded ==
    (run.pc \notin {"none", "scheduled"} /\ ~Produced) => PendingTimes # {}

(* C24: the image beacon has returned its 1x1 image from the start, before *)
(* the exchange has issued a call; the exchange then makes exactly one      *)
(* store write, when it settles, under the session id of the request        *)
(* ('default' when the request names none), with the backend's answer when  *)
(* it returned and the rule-based answer when it threw.                     *)
C24_ImageThenOneStore ==
    run.proxy = "chat-pixel" =>
        /\ handled.responded
        /\ handled.response = Pixel
        /\ Len(handled.stores) = IF run.pc \in {"returned", "threw"} THEN 1 ELSE 0
        /\ \A i \in DOMAIN handled.stores :
              LET stored == handled.stores[i]
              IN  /\ stored.sessionId = Or(run.session, "default")
                  /\ run.pc = "returned" =>
                        /\ stored.method = "PIXEL"
                        /\ stored.answer \in {a.text : a \in Range(run.seen)}
                  /\ run.pc = "threw" =>
                        /\ stored.method = "PIXEL_FALLBACK"
                        /\ stored.answer = "fallback"

C24_Witness ==
    /\ run.proxy = "chat-pixel"
    /\ run.session = "s1"
    /\ run.pc = "returned"
    /\ Len(handled.stores) = 1
    /\ handled.stores[1].at > handled.response.at

NotSender(a) == a.type = "message" /\ a.from # Profile(run.proxy).sender

(* C28: the calls of an exchange are one conversation request, then one    *)
(* post, then polls, at most the proxy's number of polls (chat 3, chat-jsonp *)
(* 3, chat-iframe 4, chat-sse 6, chat-pixel 5); the exchange goes on to     *)
(* another poll only when the latest one listed no message by another       *)
(* author, returns only from a poll that listed one, and fails with the     *)
(* polling-timeout error exactly when its last allowed poll listed none.    *)
C28_FixedOrder ==
    run.log # <<>> =>
        /\ run.log[1] = "conversation"
        /\ Len(run.log) >= 2 => run.log[2] = "post"
        /\ \A i \in DOMAIN run.log : i >= 3 => run.log[i] = "poll"
        /\ run.polls = Max(Len(run.log) - 2, 0)
        /\ run.polls <= CASE run.proxy = "chat" -> 3
                           [] run.proxy = "chat-jsonp" -> 3
                           [] run.proxy = "chat-iframe" -> 4
                           [] run.proxy = "chat-sse" -> 6
                           [] run.proxy = "chat-pixel" -> 5
        /\ run.pc = "wait" => \A a \in Range(run.seen) : ~NotSender(a)
        /\ run.pc = "returned" =>
              /\ run.polls >= 1
              /\ \E a \in Range(run.seen) : NotSender(a)
        /\ (run.pc = "threw" /\ run.result = "polling timeout") =>
              /\ run.polls = Profile(run.proxy).polls
              /\ \A a \in Range(run.seen) : ~NotSender(a)
        /\ (run.pc = "threw" /\ run.polls = Profile(run.proxy).polls
            /\ run.result # "fetch failed") => run.result = "polling timeout"

C28_Witness ==
    /\ run.proxy = "chat-sse"
    /\ run.pc = "returned"
    /\ run.polls = 6

(* C29: the answer an exchange returns is the text of the earliest message *)
(* by another author in the activities of the poll that succeeded.          *)
C29_FirstReply ==
    run.pc = "returned" =>
        \E i \in DOMAIN run.seen :
            /\ NotSender(run.seen[i])
            /\ \A j \in 1..(i - 1) : ~NotSender(run.seen[j])
            /\ run.result = run.seen[i].text

----------------------------------------------------------------------------
(* Claims on the widget and its host (HostSpec).                           *)

(* C23: every adapter invoked for one question is handed the same data     *)
(* context, also when the host updates the view while the question is       *)
(* being processed.                                                         *)
C23_OneSnapshot ==
    \A i, j \in DOMAIN passed : passed[i] = passed[j]

BotBubbles == SelectSeq(bubbles, LAMBDA b : b.type = "bot")

PixelInsts == {i \in Insts \cup {cur} : i.m = "Pixel"}

(* C26: the image-beacon adapter polls the store first 2 s after it was    *)
(* invoked and again 1 s after each poll that found nothing or threw, makes *)
(* at most 15 polls, settles at the first poll that finds an entry, and     *)
(* rejects with 'Pixel timeout' when checkResponse runs after the 15th.     *)
C26_PollSchedule ==
    /\ (loading /\ cur.m = "Pixel" /\ "poll" \in cur.res) =>
          /\ attemptAge + cur.timer >= PollStart + cur.attempts * PollInterval
          /\ attemptAge + cur.timer <=
                PollStart + cur.attempts * (PollInterval + MaxLatency)
    /\ \A i \in PixelInsts :
          /\ i.attempts <= maxAttempts
          /\ "fetch" \in i.res =>
                \A resp \in StoreAnswers :
                    LET out == PixelOnResponse(i, resp)
                    IN  IF ~resp.threw /\ resp.found /\ resp.data # Null
                        THEN /\ out.result.kind \in {"resolve", "reject"}
                             /\ out.inst.res = {}
                        ELSE /\ out.result = None
                             /\ out.inst.res = {"poll"}
                             /\ out.inst.timer = PollInterval
          /\ ("poll" \in i.res /\ i.timer = 0) =>
                LET out == PixelCheckResponse(i)
                IN  IF i.attempts = maxAttempts
                    THEN /\ out.result = Reject("Pixel timeout")
                         /\ out.inst.res = {}
                    ELSE /\ out.result = None
                         /\ out.inst.res = {"fetch"}

C26_Witness ==
    \E i \in abandoned :
        /\ i.m = "Pixel"
        /\ i.attempts = maxAttempts
        /\ "poll" \in i.res
        /\ i.timer = 0

(* C27: an awaited image-beacon attempt is over within 15 s, and when it   *)
(* was the last attempt of a question that failed it did not end by the     *)
(* controller's 'Timeout geral'.                                            *)
C27_RejectsBeforeRace ==
    /\ (loading /\ cur.m = "Pixel") => attemptAge <= AdapterTimeout
    /\ (outcome.kind = "rejected" /\ attempted # <<>>
        /\ attempted[Len(attempted)] = "Pixel") =>
          outcome.value # "Timeout geral"

----------------------------------------------------------------------------
(* Claims on the rule-based generator of chat.js (RuleSpec).               *)

BucketOrder ==
    <<"totals", "quantities", "sales", "doctors", "averages", "comparisons">>

(* The buckets, by position in BucketOrder, that have a term occurring in  *)
(* the lower-cased question.                                                *)
Matching(question) ==
    {b \in DOMAIN BucketOrder :
        \E e \in DOMAIN questionTypes :
            /\ questionTypes[e].type = BucketOrder[b]
            /\ \E t \in DOMAIN questionTypes[e].terms :
                  includes(toLowerCase(question), questionTypes[e].terms[t])}

(* C30: the generator selects the earliest bucket, in the order totals,    *)
(* quantities, sales, practitioner, averages, comparisons, that has a term  *)
(* occurring as a substring of the lower-cased question, and the generic    *)
(* bucket when no bucket has one.                                           *)
C30_EarliestBucket ==
    chosen # NotChosen =>
        LET hits == Matching(chosen.question)
        IN  IF hits = {} THEN chosen.responseType = "general"
            ELSE /\ chosen.responseType \in Range(BucketOrder)
                 /\ \E b \in hits :
                       /\ BucketOrder[b] = chosen.responseType
                       /\ \A other \in hits : b <= other

C30_Witness ==
    /\ Cardinality(Matching(chosen.question)) >= 2
    /\ chosen.responseType = "quantities"

----------------------------------------------------------------------------
(* Claims on the context parameter of chat.js (ParseSpec).                 *)

(* C31: a context longer than the limit that the handler has received is   *)
(* kept as a non-empty prefix of the rows that were sent.                   *)
C31_TruncatedToPrefix ==
    (contextData # NotParsed /\ Chars(JsonText(sentRows)) > ContextLimit) =>
        /\ contextData.isArray
        /\ contextData.rows # <<>>
        /\ Len(contextData.rows) <= Len(sentRows)
        /\ \A k \in DOMAIN contextData.rows : contextData.rows[k] = k

----------------------------------------------------------------------------
(* Claims on the hidden-frame adapter (FrameSpec).                         *)

(* C32: a message event whose origin is not the configured backend's       *)
(* leaves the promise, the frame, the listener and the timer as they were;  *)
(* one whose origin is the backend's removes frame and listener and settles *)
(* the promise: rejected when the payload has an error, resolved otherwise. *)
C32_OnlyBackendOrigin ==
    [][heard'.n = heard.n + 1 =>
          IF heard'.origin = Backend
          THEN /\ frame'.res \cap {"frame", "listener"} = {}
               /\ promise'.kind = IF heard'.data # Null /\ heard'.data.error # ""
                                  THEN "reject" ELSE "resolve"
          ELSE /\ frame' = frame
               /\ promise' = promise
               /\ frame'.res = {"frame", "listener", "timer"}]_vars

----------------------------------------------------------------------------
(* Claims on the error handler (ErrorSpec).                                *)

ClassOrder ==
    <<"CORS_BLOCKED", "CSP_VIOLATION", "NETWORK_ERROR", "TIMEOUT_ERROR",
      "AUTH_ERROR", "DATA_ERROR">>

(* The classes, by position in ClassOrder, whose predicate holds of the    *)
(* lower-cased message.                                                     *)
ClassesOf(message) ==
    LET m == toLowerCase(message)
    IN  {k \in DOMAIN ClassOrder :
            \/ k = 1 /\ isCorsError(m)
            \/ k = 2 /\ isCspError(m)
            \/ k = 3 /\ isNetworkError(m)
            \/ k = 4 /\ isTimeoutError(m)
            \/ k = 5 /\ isAuthError(m)
            \/ k = 6 /\ isDataError(m)}

(* C33: analyzeError gives the earliest class, in the order CORS, CSP,     *)
(* network, timeout, auth, data, whose predicate holds of the lower-cased   *)
(* message, and UNKNOWN_ERROR when none holds.                              *)
C33_EarliestClass ==
    errorDetails # NoDetails =>
        LET hits == ClassesOf(errorDetails.message)
        IN  IF hits = {} THEN errorDetails.code = "UNKNOWN_ERROR"
            ELSE \E k \in hits :
                    /\ errorDetails.code = ClassOrder[k]
                    /\ \A other \in hits : k <= other

C33_Witness ==
    /\ errorDetails.code = "NETWORK_ERROR"
    /\ {3, 4} \subseteq ClassesOf(errorDetails.message)

(* C34: the history never holds more than 50 entries; it holds the errors  *)
(* logged since the last clear, and once more than 50 were logged exactly   *)
(* the 50 most recent of them, in arrival order.                            *)
C34_LastFifty ==
    /\ Len(errorHistory) <= 50
    /\ Len(errorHistory) = IF logged > 50 THEN 50 ELSE logged
    /\ \A k \in DOMAIN errorHistory :
          errorHistory[k] = arrived - Len(errorHistory) + k

C34_Witness ==
    /\ logged > 50
    /\ Len(errorHistory) = 50
    /\ errorHistory[1] = arrived - 49
    /\ arrived > logged

----------------------------------------------------------------------------
(* Claims on the method table and the controller (HostSpec, Spec).         *)

(* C35: the table has four entries, one per transport, with the distinct   *)
(* priorities 1..4; a step changes an enabled flag only in the failure      *)
(* branch of the controller, for the method whose attempt failed, or when   *)
(* the re-enable timer of the method fires.                                 *)
C35_OnlyEnabledChanges ==
    [][/\ Len(communicationMethods) = 4
       /\ {communicationMethods[k].name : k \in 1..4} = DOMAIN enabled
       /\ Cardinality(DOMAIN enabled) = 4
       /\ {communicationMethods[k].priority : k \in 1..4} = 1..4
       /\ DOMAIN enabled' = DOMAIN enabled
       /\ \A n \in DOMAIN enabled :
             enabled'[n] # enabled[n] =>
                IF enabled[n]
                THEN /\ idx # 0
                     /\ enabledMethods[idx] = n
                     /\ lastFail' # ""
                     /\ sinceFail'[n] = 0
                     /\ reenable'[n] = Append(reenable[n], Cooldown)
                ELSE /\ reenable[n] # <<>>
                     /\ reenable[n][1] = 0
                     /\ reenable'[n] = Tail(reenable[n])]_vars

C35_Witness ==
    \E n \in DOMAIN enabled, m \in DOMAIN enabled :
        /\ ~enabled[n]
        /\ reenable[n] # <<>>
        /\ reenable[n][1] = 0
        /\ enabled[m]
        /\ lastUsedMethod = m
        /\ dataContext.hasData

C37_AllInCooldown ==
    [][(asked' = asked + 1 /\ \A n \in DOMAIN enabled : ~enabled[n]) =>
          /\ attempted' = <<>>
          /\ passed' = <<>>
          /\ cur' = cur
          /\ abandoned' = abandoned
          /\ raceLeft' = raceLeft
          /\ ~loading'
          /\ outcome'.kind = "rejected"
          /\ enabled' = enabled
          /\ reenable' = reenable
          /\ lastUsedMethod' = lastUsedMethod]_vars

C37_Witness ==
    /\ asked = 2
    /\ outcome.kind = "rejected"
    /\ attempted = <<>>
    /\ enabledAtStart = {}
    /\ \A n \in DOMAIN enabled : ~enabled[n] /\ Len(reenable[n]) = 1
    /\ callAge = 0

Unsettled(invocations) == {i \in invocations : ~i.settled}

(* C38: when the promise of an adapter settles after the controller's      *)
(* 16 s timer ended its attempt, the outcome of the question, the bubbles,  *)
(* lastUsedMethod, the enabled flags and the re-enable timers stay as they  *)
(* were, and the controller does not move.                                  *)
C38_LateResultIgnored ==
    [][Cardinality(Unsettled(abandoned')) < Cardinality(Unsettled(abandoned)) =>
          /\ outcome' = outcome
          /\ bubbles' = bubbles
          /\ wins' = wins
          /\ lastUsedMethod' = lastUsedMethod
          /\ enabled' = enabled
          /\ reenable' = reenable
          /\ cur' = cur
          /\ idx' = idx
          /\ loading' = loading]_vars

C38_Witness ==
    /\ <<"Pixel", "resolve">> \in late
    /\ outcome.kind = "rejected"
    /\ outcome.value = "Timeout geral"
    /\ lastUsedMethod = ""
    /\ ~enabled["Pixel"]
    /\ sinceFail["Pixel"] < Cooldown

----------------------------------------------------------------------------
(* Further claims on the store (StoreSpec) and the chat proxy (ProxySpec). *)

(* C39: while less than 5 minutes have passed since the last store under a *)
(* session id and no fetch has taken the entry, the entry is in the map and *)
(* a GET for the id would find it.  The statement does not hold: the timer  *)
(* of an earlier store under the same id deletes by id, whatever entry is   *)
(* there.                                                                   *)
C39_FetchableFiveMinutes ==
    \A sid \in Sessions :
        (/\ lastStored[sid] # NoStore
         /\ storeNow - lastStored[sid].at < CleanupDelay
         /\ \A k \in DOMAIN took[sid] : took[sid][k] # "fetch") =>
            /\ sid \in DOMAIN responses
            /\ GetNow(sid).body.found

(* C40: the chat proxy answers with method COPILOT only when the answer is *)
(* the text of the conversational backend; an answer written by the         *)
(* rule-based generator goes out with method FALLBACK.  The statement does  *)
(* not hold: method is set when the backend call returns, and an empty or   *)
(* missing bot text is then replaced by the rule-based answer.              *)
C40_MethodNamesSource ==
    \A x \in {exchange, repeat} :
        (x # NoExchange /\ x.proxy = "chat"
         /\ x.response.payload.method # "ERROR_RECOVERY") =>
            LET payload == x.response.payload
            IN  /\ payload.method \in {"COPILOT", "FALLBACK"}
                /\ payload.answer.text = "fallback" => payload.method = "FALLBACK"
                /\ payload.method = "COPILOT" =>
                      /\ x.backend.reply = "text"
                      /\ payload.answer = BotAnswer(
                             sendToCopilot(x.secret, x.backend, ChatPolls,
                                           x.question))
====
